---- MODULE Spec2Model ----
(***************************************************************************)
(* Declarative reconciler: one reconcile pass (Reconciler.Reconcile and    *)
(* Reconciler.reconcileExists, with Reconciler.Init before it and          *)
(* Reconciler.SetSink beside it), the operator-version gate                *)
(* (NewVersionCheck, versionCheck.VersionCheck) and the two earlier        *)
(* revisions of it (preflightChecks.Preflight), the manifest builder       *)
(* (Reconciler.BuildDeploymentObjectsWithFs, with the files it writes and  *)
(* the kustomize stage) and the dynamic watch (dynamicWatch.Add,           *)
(* dynamicWatch.AddForGVR, dynamicWatch.watchUntilClosed): the triggers    *)
(* sent on dw.events, the cancellation of a loop's context, the changes    *)
(* the API server makes while a watch is open or closed, and reconcile     *)
(* passes that run side by side on copies of the prototype.                *)
(*                                                                         *)
(* Strings that the code parses or formats (version strings) are tuples of *)
(* one-character strings, so that parsing and formatting are computed.     *)
(***************************************************************************)
EXTENDS Integers, Sequences, FiniteSets, TLC

VARIABLES
    pc,           \* position of the pass in Reconcile / reconcileExists
    options,      \* r.options: which collaborators are configured
    engineStr,    \* version string handed to NewVersionCheck
    versionCheck, \* result of NewVersionCheck: the gate and the constructor's error
    store,        \* the backing store's copy of the desired-state object's status
    instance,     \* the pass's deep copy of the desired-state object
    manifest,     \* what BuildDeploymentObjectsWithFs yields when it succeeds
    objects,      \* the local variable `objects` of reconcileExists
    gate,         \* (isValidVersion, err) returned by VersionCheck
    deferred,     \* TRUE once the deferred status step is registered
    calls,        \* collaborator invocations of this pass, in order
    logged,       \* the messages of the log.Error calls of this pass, in order
    ret,          \* the error returned to the caller of Reconcile
    retAtReturn,  \* the error at the return statement, before deferred steps ran
    initErr,      \* the error returned by Reconciler.Init
    params,       \* what the options handed to Reconciler.Init amount to
    manifestFiles, \* what the manifest controller resolves: path -> document
    builds,       \* the results of the builds made so far, in order
    registrations, \* the calls of Add and AddForGVR and what they returned, in order
    loops,        \* the watch loops: one goroutine per registration
    pendingCalls, \* the calls of Add and AddForGVR the controller has still to make
    received,     \* what the consumer received on dw.events, per target
    world,        \* the API server's objects of the watched resources
    heap,         \* the objects that passes running side by side point to
    passes,       \* the passes running side by side, one per request
    stores        \* the backing store's copies of the desired-state objects

\* the state of a reconcile pass and of the version gate
passVars == <<pc, options, engineStr, versionCheck, store, instance, manifest,
              objects, gate, deferred, calls, logged, ret, retAtReturn, initErr,
              params>>

\* the state of the manifest builder on its own
buildVars == <<manifestFiles, builds>>

\* the state of the dynamic watch
watchVars == <<registrations, loops, pendingCalls, received, world>>

\* the part of it outside the watch loops
outVars == <<pendingCalls, received, world>>

\* the state of passes that run side by side
copyVars == <<heap, passes, stores>>

vars == <<passVars, buildVars, watchVars, copyVars>>

----------------------------------------------------------------------------
(* Bounds of the model. *)

\* longest top-level item list of a built manifest set (Spec)
MaxObjs == 2

\* longest item list handed to the gate alone (SpecGate)
MaxGateObjs == 3

\* number of builds made from the same resolved files (SpecBuild)
MaxBuilds == 2

\* number of times the API server lets a registration down, by refusing a
\* watch or by closing one (SpecWatch)
MaxDisconnects == 2

\* number of calls of client.Watch a loop makes on a context that is done
\* (SpecCancel)
MaxAttempts == 5

\* number of changes made to a watched object (SpecChange)
MaxChanges == 2

\* number of events the API server sends on one connection (SpecWatch)
MaxEvents == 3

\* number of events that wait in the result channel of a watch for the loop
\* to receive them (SpecWatch)
ChanCap == 2

----------------------------------------------------------------------------
(* Errors: a message and the value formatted into it. *)

Err(m, a) == [msg |-> m, arg |-> a]

NilErr == Err("nil", <<>>)

IsErr(e) == e # NilErr

----------------------------------------------------------------------------
(* Semantic versions, as semver.Make / Version.GT / Version.String compute *)
(* them on strings over digits, letters, dots, "-" and "+".                 *)

Digits == <<"0", "1", "2", "3", "4", "5", "6", "7", "8", "9">>

IsDigit(c) == \E i \in 1..10 : Digits[i] = c

DigitVal(c) == (CHOOSE i \in 1..10 : Digits[i] = c) - 1

\* strings.Index(s, c), 1-based; 0 when c does not occur
IndexOf(s, c) ==
    IF \E i \in 1..Len(s) : s[i] = c
    THEN CHOOSE i \in 1..Len(s) : s[i] = c /\ \A j \in 1..(i - 1) : s[j] # c
    ELSE 0

\* strings.SplitN(s, ".", 3)
SplitN3(s) ==
    LET i == IndexOf(s, ".") IN
    IF i = 0 THEN <<s>>
    ELSE LET head == SubSeq(s, 1, i - 1)
             rest == SubSeq(s, i + 1, Len(s))
             j    == IndexOf(rest, ".")
         IN  IF j = 0 THEN <<head, rest>>
             ELSE <<head, SubSeq(rest, 1, j - 1), SubSeq(rest, j + 1, Len(rest))>>

\* containsOnly(s, numbers): no character of s is outside the digits; true
\* on the empty string
containsOnlyNumbers(s) == \A i \in 1..Len(s) : IsDigit(s[i])

hasLeadingZeroes(s) == Len(s) > 1 /\ s[1] = "0"

\* the digits of math.MaxUint64
MaxUint64Digits ==
    <<"1", "8", "4", "4", "6", "7", "4", "4", "0", "7",
      "3", "7", "0", "9", "5", "5", "1", "6", "1", "5">>

\* a string of digits without its leading zeroes
RECURSIVE TrimZeroes(_)
TrimZeroes(s) == IF Len(s) > 0 /\ s[1] = "0" THEN TrimZeroes(Tail(s)) ELSE s

\* the number a string of digits stands for
RECURSIVE DigitsValue(_)
DigitsValue(s) ==
    IF Len(s) = 0 THEN 0
    ELSE 10 * DigitsValue(SubSeq(s, 1, Len(s) - 1)) + DigitVal(s[Len(s)])

\* the string of digits s stands for a number above math.MaxUint64
OutOfRange(s) ==
    LET t == TrimZeroes(s) IN
    \/ Len(t) > Len(MaxUint64Digits)
    \/ /\ Len(t) = Len(MaxUint64Digits)
       /\ \E i \in 1..Len(t) :
              /\ DigitVal(t[i]) > DigitVal(MaxUint64Digits[i])
              /\ \A j \in 1..(i - 1) : t[j] = MaxUint64Digits[j]

\* strconv.ParseUint(s, 10, 64) on a string of digits, the error: the
\* empty string is a syntax error, a number above math.MaxUint64 a range
\* error
ParseUintErr(s) ==
    IF Len(s) = 0 THEN Err("strconv.ParseUint: parsing %q: invalid syntax", s)
    ELSE IF OutOfRange(s) THEN Err("strconv.ParseUint: parsing %q: value out of range", s)
    ELSE NilErr

\* strconv.ParseUint(s, 10, 64) on a string of digits, the value: 0 with a
\* syntax error, math.MaxUint64 with a range error
ParseUint(s) ==
    IF Len(s) = 0 THEN 0
    ELSE IF OutOfRange(s) THEN DigitsValue(MaxUint64Digits)
    ELSE DigitsValue(s)

RECURSIVE FormatUint(_)
FormatUint(n) ==
    IF n < 10 THEN <<Digits[n + 1]>>
    ELSE FormatUint(n \div 10) \o <<Digits[(n % 10) + 1]>>

\* semver.Version{}: Major, Minor, Patch, Pre and Build
zeroVersion == [major |-> 0, minor |-> 0, patch |-> 0, pre |-> <<>>, build |-> <<>>]

\* the characters of alphanum, in the order of their bytes
Alphanum ==
    << "-", "0", "1", "2", "3", "4", "5", "6", "7", "8", "9",
       "A", "B", "C", "D", "E", "F", "G", "H", "I", "J", "K", "L", "M",
       "N", "O", "P", "Q", "R", "S", "T", "U", "V", "W", "X", "Y", "Z",
       "a", "b", "c", "d", "e", "f", "g", "h", "i", "j", "k", "l", "m",
       "n", "o", "p", "q", "r", "s", "t", "u", "v", "w", "x", "y", "z" >>

\* containsOnly(s, alphanum); true on the empty string
containsOnlyAlphanum(s) == \A i \in 1..Len(s) : IndexOf(Alphanum, s[i]) # 0

\* strings.Split(s, sep) for a separator of one character
RECURSIVE Split(_, _)
Split(s, sep) ==
    IF IndexOf(s, sep) = 0 THEN <<s>>
    ELSE <<SubSeq(s, 1, IndexOf(s, sep) - 1)>>
             \o Split(SubSeq(s, IndexOf(s, sep) + 1, Len(s)), sep)

\* s[:strings.IndexRune(s, c)], all of s when c does not occur
UpTo(s, c) == IF IndexOf(s, c) = 0 THEN s ELSE SubSeq(s, 1, IndexOf(s, c) - 1)

\* strings.Split(s[strings.IndexRune(s, c)+1:], "."), nothing when c does
\* not occur
SplitAfter(s, c) ==
    IF IndexOf(s, c) = 0 THEN <<>> ELSE Split(SubSeq(s, IndexOf(s, c) + 1, Len(s)), ".")

\* the third element of SplitN: the build meta data after the first "+",
\* the pre-release versions after the first "-" of what is before it, and
\* the patch number before both
BuildPart(part) == SplitAfter(part, "+")

PrereleasePart(part) == SplitAfter(UpTo(part, "+"), "-")

PatchPart(part) == UpTo(UpTo(part, "+"), "-")

\* the names of the three elements in the errors of semver.Make
ElementNames == <<"major", "minor", "patch">>

ElementTitles == <<"Major", "Minor", "Patch">>

\* the checks of semver.Make on element k, the string part: the error it
\* returns for the element, nil when the element is a number
NumericPart(part, k) ==
    IF ~containsOnlyNumbers(part)
    THEN Err("Invalid character(s) found in " \o ElementNames[k] \o " number %q", part)
    ELSE IF hasLeadingZeroes(part)
    THEN Err(ElementTitles[k] \o " number must not contain leading zeroes %q", part)
    ELSE ParseUintErr(part)

\* semver.NewPRVersion(s), the error
NewPRVersionErr(s) ==
    IF Len(s) = 0 THEN Err("Prerelease is empty", <<>>)
    ELSE IF containsOnlyNumbers(s)
    THEN IF hasLeadingZeroes(s)
         THEN Err("Numeric PreRelease version must not contain leading zeroes %q", s)
         ELSE ParseUintErr(s)
    ELSE IF containsOnlyAlphanum(s) THEN NilErr
    ELSE Err("Invalid character(s) found in prerelease %q", s)

\* semver.NewPRVersion(s), the PRVersion: VersionStr, VersionNum and IsNum
NewPRVersion(s) ==
    IF containsOnlyNumbers(s)
    THEN [str |-> <<>>, num |-> ParseUint(s), isNum |-> TRUE]
    ELSE [str |-> s, num |-> 0, isNum |-> FALSE]

\* the checks of semver.Make on one string of the build meta data
BuildMetaErr(s) ==
    IF Len(s) = 0 THEN Err("Build meta data is empty", <<>>)
    ELSE IF ~containsOnlyAlphanum(s)
    THEN Err("Invalid character(s) found in build meta data %q", s)
    ELSE NilErr

\* the first error of a list of errors, nil when there is none
FirstError(errs) ==
    IF \A i \in DOMAIN errs : ~IsErr(errs[i]) THEN NilErr
    ELSE errs[CHOOSE i \in DOMAIN errs :
                  IsErr(errs[i]) /\ \A j \in 1..(i - 1) : ~IsErr(errs[j])]

\* the strings of the major, minor and patch number among the elements of
\* SplitN
NumberParts(parts) == <<parts[1], parts[2], PatchPart(parts[3])>>

\* the error of semver.Make on the three elements of SplitN: major, minor
\* and patch number are checked first, then the pre-release versions, then
\* the build meta data, and the first error is returned
ElementsError(parts) ==
    FirstError([k \in 1..3 |-> NumericPart(NumberParts(parts)[k], k)]
               \o [i \in DOMAIN PrereleasePart(parts[3]) |->
                      NewPRVersionErr(PrereleasePart(parts[3])[i])]
               \o [i \in DOMAIN BuildPart(parts[3]) |->
                      BuildMetaErr(BuildPart(parts[3])[i])])

\* the Version semver.Make returns for three elements that pass its checks
VersionOf(parts) ==
    [major |-> ParseUint(parts[1]),
     minor |-> ParseUint(parts[2]),
     patch |-> ParseUint(PatchPart(parts[3])),
     pre   |-> [i \in DOMAIN PrereleasePart(parts[3]) |->
                   NewPRVersion(PrereleasePart(parts[3])[i])],
     build |-> BuildPart(parts[3])]

\* (Version, error) as semver.Make returns them: Version{} with an error
MakeResult(v, err) ==
    IF IsErr(err) THEN [v |-> zeroVersion, err |-> err] ELSE [v |-> v, err |-> NilErr]

\* semver.Make on the elements SplitN gave for a string that is not empty
MakeOfParts(parts) ==
    IF Len(parts) # 3
    THEN MakeResult(zeroVersion, Err("No Major.Minor.Patch elements found", <<>>))
    ELSE MakeResult(VersionOf(parts), ElementsError(parts))

\* semver.Make(s): (Version, error)
SemverMake(s) ==
    IF Len(s) = 0 THEN MakeResult(zeroVersion, Err("Version string empty", <<>>))
    ELSE MakeOfParts(SplitN3(s))

\* the comparison of two strings of alphanum by their bytes: -1, 0 or 1
RECURSIVE StringCompare(_, _)
StringCompare(a, b) ==
    IF a = <<>> /\ b = <<>> THEN 0
    ELSE IF a = <<>> THEN -1
    ELSE IF b = <<>> THEN 1
    ELSE IF IndexOf(Alphanum, a[1]) < IndexOf(Alphanum, b[1]) THEN -1
    ELSE IF IndexOf(Alphanum, a[1]) > IndexOf(Alphanum, b[1]) THEN 1
    ELSE StringCompare(Tail(a), Tail(b))

\* PRVersion.Compare(o): numbers by value, a number below a string, strings
\* by their bytes
PRVersionCompare(a, b) ==
    IF a.isNum /\ ~b.isNum THEN -1
    ELSE IF ~a.isNum /\ b.isNum THEN 1
    ELSE IF a.isNum /\ b.isNum
    THEN IF a.num = b.num THEN 0 ELSE IF a.num > b.num THEN 1 ELSE -1
    ELSE StringCompare(a.str, b.str)

\* the loop of Version.Compare over the pre-release versions both have,
\* from the i-th on, and what decides when they agree on all of them
RECURSIVE PrereleaseCompare(_, _, _)
PrereleaseCompare(a, b, i) ==
    IF i <= Len(a) /\ i <= Len(b)
    THEN IF PRVersionCompare(a[i], b[i]) = 0 THEN PrereleaseCompare(a, b, i + 1)
         ELSE PRVersionCompare(a[i], b[i])
    ELSE IF i > Len(a) /\ i > Len(b) THEN 0
    ELSE IF i > Len(a) THEN -1
    ELSE 1

\* Version.Compare(o): -1, 0 or 1; the build meta data are not compared
VersionCompare(a, b) ==
    IF a.major # b.major THEN (IF a.major > b.major THEN 1 ELSE -1)
    ELSE IF a.minor # b.minor THEN (IF a.minor > b.minor THEN 1 ELSE -1)
    ELSE IF a.patch # b.patch THEN (IF a.patch > b.patch THEN 1 ELSE -1)
    ELSE IF Len(a.pre) = 0 /\ Len(b.pre) = 0 THEN 0
    ELSE IF Len(a.pre) = 0 THEN 1
    ELSE IF Len(b.pre) = 0 THEN -1
    ELSE PrereleaseCompare(a.pre, b.pre, 1)

\* Version.GT(o)
VersionGT(a, b) == VersionCompare(a, b) = 1

\* Version.Equals(o)
VersionEquals(a, b) == VersionCompare(a, b) = 0

\* PRVersion.String()
PRVersionString(p) == IF p.isNum THEN FormatUint(p.num) ELSE p.str

\* the elements joined by dots after the character lead, nothing for no
\* element
RECURSIVE Suffix(_, _)
Suffix(lead, elems) ==
    IF elems = <<>> THEN <<>>
    ELSE lead \o Head(elems) \o Suffix(<<".">>, Tail(elems))

\* Version.String()
VersionString(v) ==
    FormatUint(v.major) \o <<".">> \o FormatUint(v.minor) \o <<".">> \o FormatUint(v.patch)
        \o Suffix(<<"-">>, [i \in DOMAIN v.pre |-> PRVersionString(v.pre[i])])
        \o Suffix(<<"+">>, v.build)

----------------------------------------------------------------------------
(* Version strings used as inputs. *)

V_0_0_0  == <<"0", ".", "0", ".", "0">>
V_1_2_0  == <<"1", ".", "2", ".", "0">>
V_1_4_0  == <<"1", ".", "4", ".", "0">>
V_1_5_0  == <<"1", ".", "5", ".", "0">>
V_1_6_0  == <<"1", ".", "6", ".", "0">>
V_1_10_0 == <<"1", ".", "1", "0", ".", "0">>
V_invalid == <<"i", "n", "v", "a", "l", "i", "d">>
V_short  == <<"1", ".", "5">>
V_padded == <<"0", "1", ".", "5", ".", "0">>
V_gap    == <<"1", ".", ".", "0">>
V_rc     == <<"1", ".", "5", ".", "0", "-", "r", "c", "1">>
V_rc_2   == <<"1", ".", "5", ".", "0", "-", "r", "c", ".", "2">>
V_build  == <<"1", ".", "5", ".", "0", "+", "b", "5">>
V_dash   == <<"1", ".", "5", ".", "0", "-">>
V_plus   == <<"1", ".", "5", ".", "0", "+", "b", ".", ".", "5">>
V_range  == <<"1", "8", "4", "4", "6", "7", "4", "4", "0", "7",
              "3", "7", "0", "9", "5", "5", "1", "6", "1", "6", ".", "0", ".", "0">>

----------------------------------------------------------------------------
(* Manifest objects (manifest.Object) and the desired-state object.        *)

\* the addons.k8s.io/operator-version annotation of an object
NoAnn == [has |-> FALSE, val |-> <<>>]

Ann(s) == [has |-> TRUE, val |-> s]

\* manifest.Object: identity, the version annotation, the elements of a
\* v1/List wrapper, and metadata.ownerReferences
Obj(n, g, k, a, es) ==
    [name |-> n, group |-> g, kind |-> k, ann |-> a, elems |-> es, ownerRefs |-> <<>>]

\* addonsv1alpha1.CommonStatus
CommonStatus(h, es) == [healthy |-> h, errors |-> es]

\* fmt.Sprintf(f, a, b)
Sprintf2(f, a, b) == [fmt |-> f, args |-> <<a, b>>]

----------------------------------------------------------------------------
(* The version gate.                                                       *)

\* NewVersionCheck(client, version): (*versionCheck, error)
NewVersionCheck(version) ==
    LET made == SemverMake(version) IN
    IF IsErr(made.err)
    THEN [ok |-> FALSE, version |-> zeroVersion, err |-> made.err]
    ELSE [ok |-> TRUE, version |-> made.v, err |-> NilErr]

\* the loop of VersionCheck over objs.Items: the maximum requirement found,
\* or the parse error at which the loop returns
RECURSIVE ScanAnnotations(_, _)
ScanAnnotations(items, maxVersion) ==
    IF items = <<>> THEN [max |-> maxVersion, err |-> NilErr]
    ELSE LET obj == Head(items) IN
         IF obj.ann.has
         THEN LET made == SemverMake(obj.ann.val) IN
              IF IsErr(made.err)
              THEN [max |-> maxVersion, err |-> made.err]
              ELSE ScanAnnotations(Tail(items),
                       IF VersionGT(made.v, maxVersion) THEN made.v ELSE maxVersion)
         ELSE ScanAnnotations(Tail(items), maxVersion)

\* MismatchStatus with the two versions in each other's place
MismatchStatusSwapped(maxVersion, engineVersion) ==
    CommonStatus(FALSE,
        <<Sprintf2("Addons needs version %v, this operator is version %v",
                   VersionString(engineVersion), VersionString(maxVersion))>>)

\* the status VersionCheck sets on a mismatch
MismatchStatus(maxVersion, engineVersion) ==
    CommonStatus(FALSE,
        <<Sprintf2("Addons needs version %v, this operator is version %v",
                   VersionString(maxVersion), VersionString(engineVersion))>>)

\* VersionCheck that sets a healthy status on the object when it passes
VersionCheckStampsStatus(p, src, items) ==
    LET scan == ScanAnnotations(items, zeroVersion) IN
    IF IsErr(scan.err)
    THEN [valid |-> FALSE, err |-> scan.err, status |-> src.status,
          logged |-> <<"Unable to convert string to version, skipping this object">>]
    ELSE IF VersionEquals(scan.max, zeroVersion) \/ ~VersionGT(scan.max, p.version)
    THEN [valid |-> TRUE, err |-> NilErr,
          status |-> CommonStatus(TRUE, <<"version checked">>), logged |-> <<>>]
    ELSE IF ~src.isCommon
    THEN [valid |-> FALSE,
          err |-> Err("object %T was not an addonsv1alpha1.CommonObject", <<>>),
          status |-> src.status, logged |-> <<>>]
    ELSE [valid |-> FALSE,
          err |-> Err("operator not qualified, manifest needs operator >= %v",
                      VersionString(scan.max)),
          status |-> MismatchStatus(scan.max, p.version),
          logged |-> <<>>]

\* versionCheck.VersionCheck(ctx, src, objs): (bool, error), and the status
\* of src when it returns
VersionCheck(p, src, items) ==
    LET scan == ScanAnnotations(items, zeroVersion) IN
    IF IsErr(scan.err)
    THEN [valid |-> FALSE, err |-> scan.err, status |-> src.status,
          logged |-> <<"Unable to convert string to version, skipping this object">>]
    ELSE IF VersionEquals(scan.max, zeroVersion) \/ ~VersionGT(scan.max, p.version)
    THEN [valid |-> TRUE, err |-> NilErr, status |-> src.status, logged |-> <<>>]
    ELSE IF ~src.isCommon
    THEN [valid |-> FALSE,
          err |-> Err("object %T was not an addonsv1alpha1.CommonObject", <<>>),
          status |-> src.status, logged |-> <<>>]
    ELSE [valid |-> FALSE,
          err |-> Err("operator not qualified, manifest needs operator >= %v",
                      VersionString(scan.max)),
          status |-> MismatchStatus(scan.max, p.version),
          logged |-> <<>>]

----------------------------------------------------------------------------
(* The environment of a pass: the target cluster and the configured        *)
(* owner-resolution function, both keyed by object name.                   *)

\* an element of a v1/List wrapper: an object, or a value that is no object
Elem(o) == [isObject |-> TRUE, obj |-> o]

NotAnObject == [isObject |-> FALSE, obj |-> Obj("", "", "", NoAnn, <<>>)]

\* The built objects a manifest is drawn from, listed in the order
\* manifestObjects.Sort leaves them in.
Catalogue ==
    << Obj("ns",  "",     "Namespace",      NoAnn,          <<>>),
       Obj("sa",  "",     "ServiceAccount", Ann(V_1_2_0),   <<>>),
       Obj("cm",  "",     "ConfigMap",      Ann(V_invalid), <<>>),
       Obj("dep", "apps", "Deployment",     Ann(V_1_5_0),   <<>>),
       Obj("svc", "",     "Service",        NoAnn,          <<>>),
       Obj("broken", "v1", "List", NoAnn,
           << Elem(Obj("cfg", "", "ConfigMap", NoAnn, <<>>)), NotAnObject >>),
       Obj("bundle", "v1", "List", NoAnn,
           << Elem(Obj("web", "apps", "Deployment", Ann(V_1_10_0), <<>>)),
              Elem(Obj("cfg", "", "ConfigMap", NoAnn, <<>>)),
              Elem(Obj("acct", "", "ServiceAccount", NoAnn, <<>>)) >>),
       Obj("nested", "v1", "List", NoAnn,
           << Elem(Obj("inner", "v1", "List", NoAnn,
                       << Elem(Obj("cfg", "", "ConfigMap", NoAnn, <<>>)) >>)) >>) >>

\* The live state of the target cluster for an object name: whether the
\* object exists, whether it carries addons.k8s.io/ignore, and whether the
\* lookup itself breaks (REST mapping, or the Get call).
Cluster(name) ==
    CASE name = "ns"  -> [live |-> "plain",  fault |-> "none"]
      [] name = "sa"  -> [live |-> "absent", fault |-> "none"]
      [] name = "cm"  -> [live |-> "ignore", fault |-> "get"]
      [] name = "dep" -> [live |-> "ignore", fault |-> "none"]
      [] name = "svc" -> [live |-> "plain",  fault |-> "mapping"]
      [] name = "web" -> [live |-> "absent", fault |-> "none"]
      [] name = "cfg" -> [live |-> "ignore", fault |-> "none"]
      [] OTHER        -> [live |-> "absent", fault |-> "none"]

\* an owner as the owner-resolution function returns it
Owner(n, u, g, v, k) ==
    [isNil |-> FALSE, name |-> n, uid |-> u, group |-> g, version |-> v, kind |-> k]

NilOwner == [isNil |-> TRUE, name |-> "", uid |-> "", group |-> "", version |-> "", kind |-> ""]

\* r.options.ownerFn(ctx, instance, o, objects): (owner, error)
OwnerFn(name) ==
    CASE name = "ns"  -> [owner |-> NilOwner, err |-> NilErr]
      [] name = "svc" -> [owner |-> NilOwner, err |-> Err("resolving owner", <<>>)]
      [] name = "cm"  -> [owner |-> Owner("addon", "", "addons.example.org", "v1alpha1", "Addon"),
                          err |-> NilErr]
      [] name = "cfg" -> [owner |-> Owner("", "uid-1", "addons.example.org", "v1alpha1", "Addon"),
                          err |-> NilErr]
      [] name = "web" -> [owner |-> Owner("addon", "uid-1", "", "v1", "Addon"), err |-> NilErr]
      [] name = "acct" -> [owner |-> Owner("addon", "uid-1", "addons.example.org", "", "Addon"),
                           err |-> NilErr]
      [] OTHER        -> [owner |-> Owner("addon", "uid-1", "addons.example.org", "v1alpha1", "Addon"),
                          err |-> NilErr]

\* the sequence of the elements of cat at the indices S, in increasing order
RECURSIVE Pick(_, _)
Pick(cat, S) ==
    IF S = {} THEN <<>>
    ELSE LET i == CHOOSE x \in S : \A y \in S : x <= y
         IN  <<cat[i]>> \o Pick(cat, S \ {i})

\* the manifests of at most MaxObjs top-level items
Manifests ==
    { Pick(Catalogue, S) : S \in { T \in SUBSET (1..Len(Catalogue)) : Cardinality(T) <= MaxObjs } }

\* manifest.Objects: nil, or the item list
NilObjects == [isNil |-> TRUE, items |-> <<>>]

Objects(items) == [isNil |-> FALSE, items |-> items]

\* one entry of the invocation log: the collaborator, the object it was
\* called for, the object set and the extra arguments handed to it, and the
\* error it returned
CallWith(op, name, set, err, args) ==
    [op |-> op, obj |-> name, set |-> set, err |-> err, args |-> args]

Call(op, name, set, err) == CallWith(op, name, set, err, <<>>)

----------------------------------------------------------------------------
(* The steps of reconcileExists that work on the object set.               *)

\* itemObj.EachListItem(fn) with fn appending manifest.NewObject(obj) to out
RECURSIVE EachListItem(_, _)
EachListItem(elems, out) ==
    IF elems = <<>> THEN [out |-> out, err |-> NilErr]
    ELSE IF ~Head(elems).isObject
    THEN [out |-> out, err |-> Err("items: Expected object", <<>>)]
    ELSE EachListItem(Tail(elems), Append(out, Head(elems).obj))

\* the loop of parseListKind over infos.Items
RECURSIVE ParseListLoop(_, _)
ParseListLoop(items, out) ==
    IF items = <<>> THEN [out |-> out, err |-> NilErr]
    ELSE LET item == Head(items) IN
         IF item.group = "v1" /\ item.kind = "List"
         THEN LET each == EachListItem(item.elems, out) IN
              IF IsErr(each.err) THEN each
              ELSE ParseListLoop(Tail(items), each.out)
         ELSE ParseListLoop(Tail(items), Append(out, item))

\* parseListKind(infos): (*manifest.Objects, error)
parseListKind(infos) ==
    LET res == ParseListLoop(infos.items, <<>>) IN
    IF IsErr(res.err) THEN [objects |-> NilObjects, err |-> res.err]
    ELSE [objects |-> Objects(res.out), err |-> NilErr]

\* o.SetNestedField(ownerRefs, "metadata", "ownerReferences"): fails on an
\* object whose metadata cannot take the field
SetNestedFieldFails(o) == o.name = "dep"

\* the owner reference injectOwnerRef writes for an owner
OwnerRefOf(owner) ==
    [apiVersion |-> owner.group \o "/" \o owner.version,
     blockOwnerDeletion |-> TRUE,
     controller |-> TRUE,
     kind |-> owner.kind,
     name |-> owner.name,
     uid |-> owner.uid]

\* SkipsOwner skipping only when no owner is resolved
SkipsOwnerNilOnly(owner) == owner.isNil

\* the owners injectOwnerRef skips with a log message only: none resolved,
\* no name, no UID, or a kind without group or version
SkipsOwner(owner) ==
    \/ owner.isNil
    \/ owner.name = ""
    \/ owner.uid = ""
    \/ owner.group = "" \/ owner.version = ""

\* the loop of injectOwnerRef over objects.Items: the items as it leaves
\* them, the error it returns, and the owner-resolution calls it made
RECURSIVE InjectLoop(_, _, _)
InjectLoop(todo, done, log) ==
    IF todo = <<>> THEN [items |-> done, err |-> NilErr, calls |-> log, logged |-> <<>>]
    ELSE LET o     == Head(todo)
             res   == OwnerFn(o.name)
             log2  == Append(log, Call("ownerFn", o.name, NilObjects, res.err))
             owner == res.owner
         IN  IF IsErr(res.err)
             THEN [items |-> done \o todo, err |-> res.err, calls |-> log2,
                   logged |-> <<"resolving owner ref">>]
             ELSE IF SkipsOwner(owner)
             THEN InjectLoop(Tail(todo), Append(done, o), log2)
             ELSE IF SetNestedFieldFails(o)
             THEN [items |-> done \o todo,
                   err |-> Err("setting nested field", <<>>), calls |-> log2,
                   logged |-> <<>>]
             ELSE InjectLoop(Tail(todo),
                      Append(done, [o EXCEPT !.ownerRefs = <<OwnerRefOf(owner)>>]), log2)

\* injectOwnerRef that logs its failures and returns nil
injectOwnerRefBestEffort(ownerFnSet, items) ==
    IF ~ownerFnSet THEN [items |-> items, err |-> NilErr, calls |-> <<>>, logged |-> <<>>]
    ELSE [InjectLoop(items, <<>>, <<>>) EXCEPT !.err = NilErr]

\* injectOwnerRef(ctx, instance, objects)
injectOwnerRef(ownerFnSet, items) ==
    IF ~ownerFnSet THEN [items |-> items, err |-> NilErr, calls |-> <<>>, logged |-> <<>>]
    ELSE InjectLoop(items, <<>>, <<>>)

\* GetObjectFromCluster(obj, r): (*unstructured.Unstructured, error)
GetObjectFromCluster(o) ==
    LET c == Cluster(o.name) IN
    IF c.fault = "mapping"
    THEN [isNil |-> TRUE, ignore |-> FALSE, err |-> Err("unable to get resource: %v", <<>>)]
    ELSE IF c.fault = "get" \/ c.live = "absent"
    THEN [isNil |-> TRUE, ignore |-> FALSE,
          err |-> Err("unable to get mapping for resource: %v", <<>>)]
    ELSE [isNil |-> FALSE, ignore |-> (c.live = "ignore"), err |-> NilErr]

\* apierrors.IsNotFound(err)
IsNotFound(e) == e.msg = "not found"

\* Ignored dropping also the objects whose lookup returned nothing
IgnoredOrMissing(o) ==
    LET unstruct == GetObjectFromCluster(o) IN
    unstruct.isNil \/ unstruct.ignore

\* whether the filtering loop drops obj: its live object exists and carries
\* the addons.k8s.io/ignore annotation
Ignored(o) ==
    LET unstruct == GetObjectFromCluster(o) IN
    ~unstruct.isNil /\ unstruct.ignore

\* the filtering loop of reconcileExists: newItems, the lookups it made and
\* the lookup errors it logged
RECURSIVE FilterLoop(_, _, _, _)
FilterLoop(todo, newItems, log, errs) ==
    IF todo = <<>> THEN [items |-> newItems, calls |-> log, logged |-> errs]
    ELSE LET o     == Head(todo)
             err   == GetObjectFromCluster(o).err
             log2  == Append(log, Call("GetObjectFromCluster", o.name, NilObjects, err))
             errs2 == IF IsErr(err) /\ ~IsNotFound(err)
                      THEN Append(errs, "Unable to get resource") ELSE errs
         IN  IF Ignored(o)
             THEN FilterLoop(Tail(todo), newItems, log2, errs2)
             ELSE FilterLoop(Tail(todo), Append(newItems, o), log2, errs2)

----------------------------------------------------------------------------
(* The manifest builder: Reconciler.BuildDeploymentObjectsWithFs.          *)

\* the score DefaultObjectOrder gives a kind: dependency-free kinds first,
\* workloads after them, unknown kinds last
KindPriority(kind) ==
    CASE kind = "Namespace"      -> 1
      [] kind = "ServiceAccount" -> 2
      [] kind = "ConfigMap"      -> 3
      [] kind = "Deployment"     -> 4
      [] kind = "Service"        -> 5
      [] OTHER                   -> 6

\* the object names of the model in lexical order
NameOrder ==
    << "acct", "broken", "bundle", "cfg", "cm", "dep", "inner", "nested", "ns", "sa",
       "svc", "web" >>

\* the less function of manifestObjects.Sort: kind priority, ties broken by
\* the lexical order of the names
SortsBefore(a, b) ==
    \/ KindPriority(a.kind) < KindPriority(b.kind)
    \/ /\ KindPriority(a.kind) = KindPriority(b.kind)
       /\ IndexOf(NameOrder, a.name) < IndexOf(NameOrder, b.name)

\* o put into the sorted list at its place
RECURSIVE InsertSorted(_, _)
InsertSorted(o, sorted) ==
    IF sorted = <<>> THEN <<o>>
    ELSE IF SortsBefore(o, Head(sorted)) THEN <<o>> \o sorted
    ELSE <<Head(sorted)>> \o InsertSorted(o, Tail(sorted))

\* manifestObjects.Sort(DefaultObjectOrder(ctx)) on the item list
RECURSIVE SortItems(_)
SortItems(items) ==
    IF items = <<>> THEN <<>>
    ELSE InsertSorted(items[Len(items)], SortItems(SubSeq(items, 1, Len(items) - 1)))

\* filepath.Dir on a path given as the tuple of its segments
Dir(path) == SubSeq(path, 1, Len(path) - 1)

\* manifest.Objects as the builder returns it: nil, or Path, Items and Blobs
NilManifestObjects == [isNil |-> TRUE, path |-> <<>>, items |-> <<>>, blobs |-> <<>>]

ManifestObjects(path, items, blobs) ==
    [isNil |-> FALSE, path |-> path, items |-> items, blobs |-> blobs]

\* a parsed manifest document: its objects and its blobs
Doc(items, blobs) == [items |-> items, blobs |-> blobs]

\* the step of a build that fails, and the document it fails on
Fault(stage, path) == [stage |-> stage, path |-> path]

NoFault == Fault("none", <<>>)

\* the steps that can fail on one document; json conversion only happens
\* when a file system is handed in (hasFs: fs != nil)
DocStages(hasFs) ==
    {"rawManifestOperation", "ParseObjects", "objectTransformation"}
        \cup (IF hasFs THEN {"JSON"} ELSE {})

\* the steps that can fail after the loop over the documents: those of the
\* kustomize stage, which needs the file system to get beyond k.Run
PostStages(hasFs, kustomize) ==
    IF ~kustomize THEN {}
    ELSE IF hasFs
    THEN {"kustomize.Run", "AsYaml", "kustomize.ParseObjects",
          "kustomize.objectTransformation"}
    ELSE {"kustomize.Run"}

\* the ways a build of files can go: no failure, or one failing step
Faults(files, hasFs, kustomize) ==
    {NoFault, Fault("ResolveManifest", <<>>)}
        \cup { Fault(st, path) : st \in DocStages(hasFs), path \in DOMAIN files }
        \cup { Fault(st, <<>>) : st \in PostStages(hasFs, kustomize) }

\* the orders in which a range over the map of files can visit its keys
IterationOrders(files) ==
    LET n == Cardinality(DOMAIN files) IN
    { order \in [1..n -> DOMAIN files] : \A i, j \in 1..n : order[i] = order[j] => i = j }

\* FailedBuild handing out what the build had put together so far
FailedBuildPartial(acc, err) == [objects |-> acc, err |-> err]

\* return nil, err: a failing build hands out no object set, whatever it
\* had put together (acc) when the step failed
FailedBuild(acc, err) == [objects |-> NilManifestObjects, err |-> err]

\* the loop of BuildDeploymentObjectsWithFs over manifestFiles, visiting the
\* paths in the given order
RECURSIVE BuildLoop(_, _, _, _)
BuildLoop(files, order, fault, acc) ==
    IF order = <<>> THEN [objects |-> acc, err |-> NilErr]
    ELSE LET manifestPath == Head(order)
             doc          == files[manifestPath]
         IN  IF fault.path = manifestPath /\ fault.stage # "none"
             THEN FailedBuild(acc, Err(fault.stage, <<>>))
             ELSE BuildLoop(files, Tail(order), fault,
                      ManifestObjects(Dir(manifestPath),
                                      acc.items \o doc.items,
                                      acc.blobs \o doc.blobs))

\* what is written to a file of the in-memory file system: the json of an
\* object, or a blob
JsonOf(item) == [json |-> item]

BlobOf(blob) == [blob |-> blob]

\* the writes of the builder for one document, in order: its objects, then
\* its blobs
WritesOf(doc) ==
    [i \in DOMAIN doc.items |-> JsonOf(doc.items[i])]
        \o [i \in DOMAIN doc.blobs |-> BlobOf(doc.blobs[i])]

\* the content of a file of fs, empty when there is no such file
Content(fs, path) == IF path \in DOMAIN fs THEN fs[path] ELSE <<>>

\* fs.WriteFile(path, content): the file holds the content, and nothing of
\* what it held before
WriteFile(fs, path, content) ==
    [p \in DOMAIN fs \cup {path} |-> IF p = path THEN <<content>> ELSE fs[p]]

\* the writes of one document to its file, one after the other
RECURSIVE WriteAll(_, _, _)
WriteAll(fs, path, contents) ==
    IF contents = <<>> THEN fs
    ELSE WriteAll(WriteFile(fs, path, Head(contents)), path, Tail(contents))

\* the in-memory file system after the loop over the documents
RECURSIVE FsAfterLoop(_, _, _)
FsAfterLoop(files, order, fs) ==
    IF order = <<>> THEN fs
    ELSE FsAfterLoop(files, Tail(order),
                     WriteAll(fs, Head(order), WritesOf(files[Head(order)])))

\* the objects of the files of a directory, the paths taken in the given
\* order
RECURSIVE ObjectsUnder(_, _, _)
ObjectsUnder(fs, dir, paths) ==
    IF paths = <<>> THEN <<>>
    ELSE LET path    == Head(paths)
             content == IF Dir(path) = dir THEN Content(fs, path) ELSE <<>>
             jsons   == SelectSeq(content, LAMBDA c : "json" \in DOMAIN c)
         IN  [i \in DOMAIN jsons |-> jsons[i].json] \o ObjectsUnder(fs, dir, Tail(paths))

\* k.Run(manifestObjects.Path), m.AsYaml() and the parse of the result, for
\* a kustomization that passes on the resources of the directory as they
\* are: the objects and the blobs of the parsed output
Kustomize(fs, dir, paths) == [items |-> ObjectsUnder(fs, dir, paths), blobs |-> <<>>]

\* the log.Error calls of BuildDeploymentObjectsWithFs and of
\* parseAndTransformManifest when the given step fails, in order
BuildErrorLog(stage) ==
    CASE stage = "ResolveManifest"        -> <<"error loading raw manifest">>
      [] stage = "rawManifestOperation"   -> <<"error performing raw manifest operations">>
      [] stage = "ParseObjects"           -> <<"error parsing manifest",
                                               "error parsing and transforming manifest">>
      [] stage = "objectTransformation"   -> <<"error parsing and transforming manifest">>
      [] stage = "JSON"                   -> <<"error converting object to json">>
      [] stage = "kustomize.Run"          -> <<"running kustomize to create final manifest">>
      [] stage = "AsYaml"                 -> <<"creating final manifest yaml">>
      [] stage = "kustomize.ParseObjects" -> <<"error parsing manifest",
                                               "creating final manifest yaml">>
      [] stage = "kustomize.objectTransformation" -> <<"creating final manifest yaml">>
      [] OTHER                            -> <<>>

\* a result of the builder together with the messages it logged
Logging(res, msgs) == [objects |-> res.objects, err |-> res.err, logged |-> msgs]

\* the run-time panic of a method call on a nil or torn interface value
NilDereference ==
    Err("panic: runtime error: invalid memory address or nil pointer dereference", <<>>)

\* var fs filesys.FileSystem; if r.IsKustomizeOptionUsed() { fs =
\* filesys.MakeFsInMemory() }: whether reconcileExists hands a file system
\* to the builder
MakeFs(kustomize) == kustomize

\* r.BuildDeploymentObjectsWithFs(ctx, name, instance, fs):
\* (*manifest.Objects, error) and the messages of its log.Error calls, for
\* the order in which the range over the resolved files visits them and the
\* step that fails; hasFs says that fs is not nil, kustomize that
\* r.IsKustomizeOptionUsed(). When the kustomize stage ran, the result also
\* says what it was run on and what it gave. With the kustomize option and
\* no file system k.Run has nothing to read from: it returns an error or
\* the call on the nil file system panics, and the caller gets the panic in
\* place of a result
BuildDeploymentObjectsWithFs(files, order, fault, hasFs, kustomize) ==
    IF fault.stage = "ResolveManifest"
    THEN Logging(FailedBuild(NilManifestObjects, Err("ResolveManifest", <<>>)),
                 BuildErrorLog(fault.stage))
    ELSE LET loop == BuildLoop(files, order, fault, ManifestObjects(<<>>, <<>>, <<>>)) IN
         IF IsErr(loop.err) THEN Logging(loop, BuildErrorLog(fault.stage))
         ELSE IF kustomize /\ fault.stage = "kustomize.Run"
         THEN Logging(FailedBuild(loop.objects, Err("error running kustomize: %v", <<>>)),
                      BuildErrorLog(fault.stage))
         ELSE IF kustomize /\ fault.stage = "AsYaml"
         THEN Logging(FailedBuild(loop.objects,
                          Err("error converting kustomize output to yaml: %v", <<>>)),
                      BuildErrorLog(fault.stage))
         ELSE IF kustomize /\ fault.stage = "kustomize.ParseObjects"
         THEN Logging(FailedBuild(loop.objects, Err("kustomize.ParseObjects", <<>>)),
                      BuildErrorLog(fault.stage))
         ELSE IF kustomize /\ fault.stage = "kustomize.objectTransformation"
         THEN Logging(FailedBuild(loop.objects,
                          Err("kustomize.objectTransformation", <<>>)),
                      BuildErrorLog(fault.stage))
         ELSE IF kustomize /\ ~hasFs
         THEN Logging(FailedBuild(loop.objects, NilDereference), <<>>)
         ELSE IF kustomize
         THEN LET fs  == FsAfterLoop(files, order, <<>>)
                  out == Kustomize(fs, loop.objects.path, order)
              IN  [objects |-> [loop.objects EXCEPT !.items = SortItems(out.items)],
                   err     |-> NilErr,
                   logged  |-> <<>>,
                   stage   |-> [input |-> fs, dir |-> loop.objects.path, output |-> out]]
         ELSE [objects |-> [loop.objects EXCEPT !.items = SortItems(@)], err |-> NilErr,
               logged |-> <<>>]

----------------------------------------------------------------------------
(* One reconcile pass: Reconciler.Reconcile and Reconciler.reconcileExists *)

\* (reconcile.Result{}, err)
Ret(e) == [result |-> [requeue |-> FALSE], err |-> e]

EngineStrings == {V_1_4_0, V_1_6_0}

\* r.options: which collaborators and policies are configured
AllOptions ==
    [status : BOOLEAN, sink : BOOLEAN, ownerFn : BOOLEAN, overrideTargetCluster : BOOLEAN,
     prune : BOOLEAN, labelMaker : BOOLEAN, kustomize : BOOLEAN,
     manifestController : BOOLEAN, metrics : BOOLEAN]

\* reconcilerParams{}: nothing configured
ZeroOptions ==
    [status |-> FALSE, sink |-> FALSE, ownerFn |-> FALSE, overrideTargetCluster |-> FALSE,
     prune |-> FALSE, labelMaker |-> FALSE, kustomize |-> FALSE,
     manifestController |-> FALSE, metrics |-> FALSE]

\* the configurations of the model: every combination of the collaborators
\* of a pass with a manifest controller and no label, prune or kustomize
\* option, and every combination of those four with all collaborators;
\* metrics are collected in one configuration of each kind
OptionSets ==
    { o \in AllOptions :
        /\ \/ ~o.prune /\ ~o.labelMaker /\ ~o.kustomize /\ o.manifestController
           \/ o.status /\ o.sink /\ o.ownerFn /\ o.overrideTargetCluster
        /\ o.metrics =>
               /\ o.status /\ o.sink /\ o.ownerFn /\ o.overrideTargetCluster
               /\ o.manifestController /\ ~o.kustomize /\ (o.prune <=> o.labelMaker) }

\* strings.Join(elems, sep)
RECURSIVE Join(_, _)
Join(elems, sep) ==
    IF elems = <<>> THEN ""
    ELSE IF Len(elems) = 1 THEN elems[1]
    ELSE elems[1] \o sep \o Join(Tail(elems), sep)

\* r.validateOptions(): the messages of the error it returns, none when
\* the options are compatible
validateOptions(o) ==
    (IF o.prune /\ ~o.labelMaker
     THEN <<"WithApplyPrune must be used with the WithLabels option">> ELSE <<>>)
    \o (IF ~o.manifestController
        THEN <<"ManifestController must be set either by configuring DefaultManifestLoader or specifying the WithManifestController option">>
        ELSE <<>>)

\* r.options.labelMaker(ctx, instance): the labels of the desired-state object
LabelMaker == [k \in {"app", "tier"} |-> IF k = "app" THEN "addon" ELSE "ops"]

\* the labels list after the range over the label map visited the keys in
\* the given order
SelectorLabels(labels, order) == [i \in DOMAIN order |-> order[i] \o "=" \o labels[order[i]]]

\* extraArgs always carrying the prune flag and the selector
extraArgsAlwaysPrune(prune, labels, order) ==
    <<"--force", "--prune", "--selector", Join(SelectorLabels(labels, order), ",")>>

\* extraArgs of kubectl.Apply
extraArgs(prune, labels, order) ==
    IF prune
    THEN <<"--force", "--prune", "--selector", Join(SelectorLabels(labels, order), ",")>>
    ELSE <<"--force">>

\* paths of resolved manifest files, in two directories
PathA == <<"channels", "a", "addon.yaml">>

PathB == <<"channels", "b", "rest.yaml">>

\* the resolved manifest files of a pass: one file per built object, all in
\* one directory
ManifestFiles(items) ==
    IF items = <<>> THEN [path \in {PathA} |-> Doc(<<>>, <<>>)]
    ELSE [path \in {<<"channels", "a", i>> : i \in DOMAIN items} |->
             Doc(<<items[path[3]]>>, <<>>)]

\* the manifest builder on its own is not in use
BuildIdle ==
    /\ manifestFiles = <<>>
    /\ builds = <<>>

\* the dynamic watch is not in use
\* no passes run side by side
CopiesIdle ==
    /\ heap = <<>>
    /\ passes = <<>>
    /\ stores = <<>>

WatchIdle ==
    /\ registrations = <<>>
    /\ loops = <<>>
    /\ pendingCalls = <<>>
    /\ received = <<>>
    /\ world = <<>>

Init ==
    /\ pc = "Init"
    /\ params \in OptionSets
    /\ options = ZeroOptions
    /\ engineStr \in EngineStrings
    /\ versionCheck = NewVersionCheck(engineStr)
    /\ store = [status |-> CommonStatus(TRUE, <<>>), updates |-> <<>>]
    /\ \E common \in BOOLEAN :
           instance = [isCommon |-> common, status |-> CommonStatus(FALSE, <<>>)]
    /\ manifest \in Manifests
    /\ objects = NilObjects
    /\ gate = [called |-> FALSE, valid |-> FALSE, err |-> NilErr]
    /\ deferred = FALSE
    /\ calls = <<>>
    /\ logged = <<>>
    /\ ret = Ret(NilErr)
    /\ retAtReturn = Ret(NilErr)
    /\ initErr = NilErr
    /\ BuildIdle
    /\ WatchIdle
    /\ CopiesIdle

\* Return starting the pass over after an error
ReturnRetries(e) ==
    /\ ret' = Ret(e)
    /\ retAtReturn' = Ret(e)
    /\ pc' = IF IsErr(e) THEN "Fetch" ELSE IF deferred THEN "Deferred" ELSE "Done"

\* a return statement of the pass: registered deferred steps run before the
\* caller gets the result
Return(e) ==
    /\ ret' = Ret(e)
    /\ retAtReturn' = Ret(e)
    /\ pc' = IF deferred THEN "Deferred" ELSE "Done"

\* no return yet: the pass goes on at position p
Goto(p) ==
    /\ pc' = p
    /\ UNCHANGED <<ret, retAtReturn>>

\* log.Error(err, msg)
LogError(msg) == logged' = Append(logged, msg)

\* the statement order of reconcileExists between the list expansion and
\* the apply: the step that follows step p
StepAfter(p) ==
    CASE p = "ParseListKind"  -> "InjectOwnerRef"
      [] p = "InjectOwnerRef" -> "Filter"
      [] p = "Filter"         -> "Override"

\* FetchResult handing not-found to the caller like any other error
FetchResultRequeues(getErr) == getErr

\* what Reconcile returns for the error of r.client.Get
FetchResult(getErr) == IF IsNotFound(getErr) THEN NilErr ELSE getErr

\* what DefaultManifestLoader is: nil, a function that gives a manifest
\* controller, or a function that fails
Loaders == {"nil", "loads", "fails"}

\* r.applyOptions(opts...) for options that amount to params, on a
\* reconciler whose r.options is current: r.options after the call, with
\* the manifest controller defaulted, and the error; when the default
\* loader fails r.options is not assigned
applyOptions(current, given, loader) ==
    IF ~given.manifestController /\ loader = "fails"
    THEN [options |-> current, err |-> Err("DefaultManifestLoader failed", <<>>)]
    ELSE IF ~given.manifestController /\ loader = "loads"
    THEN [options |-> [given EXCEPT !.manifestController = TRUE], err |-> NilErr]
    ELSE [options |-> given, err |-> NilErr]

\* the errors of the calls Init makes outside this repository
InitFaults == {"none", "dynamic.NewForConfig", "NewDiscoveryRESTMapper", "GVKForObject"}

\* Reconciler.Init(mgr, prototype, opts...): r.options after the call and
\* the error it returns, for the step that fails and the default loader
ReconcilerInitResult(current, given, fault, loader) ==
    LET applied == applyOptions(current, given, loader) IN
    IF fault \in {"dynamic.NewForConfig", "NewDiscoveryRESTMapper"}
    THEN [options |-> current, err |-> Err(fault, <<>>)]
    ELSE IF IsErr(applied.err) THEN applied
    ELSE IF validateOptions(applied.options) # <<>>
    THEN [options |-> applied.options,
          err |-> Err(Join(validateOptions(applied.options), ","), <<>>)]
    ELSE IF applied.options.metrics /\ fault = "GVKForObject"
    THEN [options |-> applied.options, err |-> Err(fault, <<>>)]
    ELSE [options |-> applied.options, err |-> NilErr]

\* Reconciler.Init: passes are only made by a reconciler whose
\* initialization returned no error; Init logs nothing
ReconcilerInit ==
    /\ pc = "Init"
    /\ \E fault \in InitFaults, loader \in Loaders :
           LET res == ReconcilerInitResult(options, params, fault, loader) IN
           /\ initErr' = res.err
           /\ options' = res.options
           /\ pc' = IF IsErr(res.err) THEN "InitFailed" ELSE "Fetch"
    /\ UNCHANGED <<params, engineStr, versionCheck, store, instance, manifest,
                   objects, gate, deferred, calls, logged, ret, retAtReturn>>
    /\ UNCHANGED <<buildVars, watchVars, copyVars>>

\* r.SetSink(sink): r.options.sink = sink, at any time and with no
\* synchronisation with a pass
SetSink ==
    /\ \E sink \in BOOLEAN :
           /\ sink # options.sink
           /\ options' = [options EXCEPT !.sink = sink]
    /\ UNCHANGED <<pc, initErr, params, engineStr, versionCheck, store, instance, manifest,
                   objects, gate, deferred, calls, logged, ret, retAtReturn>>
    /\ UNCHANGED <<buildVars, watchVars, copyVars>>

\* r.client.Get(ctx, request.NamespacedName, instance) and its error handling
Fetch ==
    /\ pc = "Fetch"
    /\ \E getErr \in {NilErr, Err("not found", <<>>), Err("get failed", <<>>)} :
           /\ calls' = Append(calls, Call("Get", "", NilObjects, getErr))
           /\ IF ~IsErr(getErr)
              THEN /\ instance' = [instance EXCEPT !.status = store.status]
                   /\ Goto("Preflight")
                   /\ UNCHANGED logged
              ELSE /\ Return(FetchResult(getErr))
                   /\ IF IsNotFound(getErr) THEN UNCHANGED logged
                      ELSE LogError("error reading object")
                   /\ UNCHANGED instance
    /\ UNCHANGED <<initErr, params, options, engineStr, versionCheck, store, manifest, objects, gate, deferred>>
    /\ UNCHANGED <<buildVars, watchVars, copyVars>>

\* r.options.status.Preflight(ctx, instance)
Preflight ==
    /\ pc = "Preflight"
    /\ IF options.status
       THEN \E err \in {NilErr, Err("preflight failed", <<>>)} :
                /\ calls' = Append(calls, Call("Preflight", "", NilObjects, err))
                /\ IF IsErr(err)
                   THEN Return(err) /\ LogError("preflight check failed, not reconciling")
                   ELSE Goto("Build") /\ UNCHANGED logged
       ELSE Goto("Build") /\ UNCHANGED <<calls, logged>>
    /\ UNCHANGED <<initErr, params, options, engineStr, versionCheck, store, instance, manifest, objects,
                   gate, deferred>>
    /\ UNCHANGED <<buildVars, watchVars, copyVars>>

\* objects, err := r.BuildDeploymentObjectsWithFs(ctx, name, instance, fs)
Build ==
    /\ pc = "Build"
    /\ LET files == ManifestFiles(manifest) IN
       \E order \in IterationOrders(files),
          fault \in Faults(files, MakeFs(options.kustomize), options.kustomize) :
           LET res == BuildDeploymentObjectsWithFs(files, order, fault,
                          MakeFs(options.kustomize), options.kustomize) IN
           /\ objects' = IF res.objects.isNil THEN NilObjects
                         ELSE Objects(res.objects.items)
           /\ calls' = Append(calls, Call("BuildDeploymentObjects", "", objects', res.err))
           /\ IF IsErr(res.err)
              THEN /\ Return(Err("error building deployment objects: %v", <<>>))
                   /\ logged' = logged \o res.logged \o <<"building deployment objects">>
              ELSE /\ Goto("VersionCheck")
                   /\ UNCHANGED logged
    /\ UNCHANGED <<initErr, params, options, engineStr, versionCheck, store, instance, manifest, gate, deferred>>
    /\ UNCHANGED <<buildVars, watchVars, copyVars>>

\* the defer statement left out
RegisterDeferredSkipped == deferred' = FALSE

\* the defer statement of reconcileExists
RegisterDeferred == deferred' = TRUE

\* GateBranch going on to reconcile after a failed version check
GateBranchProceeds(isValidVersion, err) ==
    IF IsErr(err) /\ isValidVersion THEN "Return" ELSE "Proceed"

\* the branch reconcileExists takes on (isValidVersion, err)
GateBranch(isValidVersion, err) ==
    IF IsErr(err)
    THEN IF ~isValidVersion THEN "StatusUpdate" ELSE "Return"
    ELSE "Proceed"

\* r.options.status.VersionCheck(ctx, instance, objects) and the branch on
\* its result, up to the defer statement
VersionGate ==
    /\ pc = "VersionCheck"
    /\ IF options.status
       THEN LET res    == VersionCheck(versionCheck, instance, objects.items)
                branch == GateBranch(res.valid, res.err)
            IN  /\ calls' = Append(calls, Call("VersionCheck", "", objects, res.err))
                /\ gate' = [called |-> TRUE, valid |-> res.valid, err |-> res.err]
                /\ instance' = [instance EXCEPT !.status = res.status]
                /\ CASE branch = "StatusUpdate" ->
                            /\ Goto("StatusUpdate")
                            /\ logged' = logged \o res.logged
                            /\ UNCHANGED deferred
                     [] branch = "Return" ->
                            /\ Return(res.err)
                            /\ logged' = logged \o res.logged
                                           \o <<"Version check failed, trying to reconcile">>
                            /\ UNCHANGED deferred
                     [] branch = "Proceed" ->
                            /\ RegisterDeferred
                            /\ Goto("ParseListKind")
                            /\ logged' = logged \o res.logged
       ELSE /\ RegisterDeferred
            /\ Goto("ParseListKind")
            /\ UNCHANGED <<calls, gate, instance, logged>>
    /\ UNCHANGED <<initErr, params, options, engineStr, versionCheck, store, manifest, objects>>
    /\ UNCHANGED <<buildVars, watchVars, copyVars>>

\* StatusUpdateResult dropping the error of the update
StatusUpdateResultSwallowed(err) == NilErr

\* what reconcileExists returns after r.client.Status().Update returned err
StatusUpdateResult(err) == IF IsErr(err) THEN err ELSE NilErr

\* r.client.Status().Update(ctx, instance) after a failed version check,
\* then the event and the return
StatusUpdate ==
    /\ pc = "StatusUpdate"
    /\ \E err \in {NilErr, Err("status update failed", <<>>)} :
           /\ store' = [status  |-> IF IsErr(err) THEN store.status ELSE instance.status,
                        updates |-> Append(store.updates, instance.status)]
           /\ Return(StatusUpdateResult(err))
           /\ IF IsErr(err)
              THEN /\ calls' = Append(calls, Call("Status.Update", "", NilObjects, err))
                   /\ UNCHANGED logged
              ELSE /\ calls' = calls \o << Call("Status.Update", "", NilObjects, err),
                                           Call("Event", "", NilObjects, NilErr) >>
                   /\ LogError("Version check failed, not reconciling")
    /\ UNCHANGED <<initErr, params, options, engineStr, versionCheck, instance, manifest, objects, gate,
                   deferred>>
    /\ UNCHANGED <<buildVars, watchVars, copyVars>>

\* objects, err = parseListKind(objects)
ParseListKind ==
    /\ pc = "ParseListKind"
    /\ LET res == parseListKind(objects) IN
       /\ objects' = res.objects
       /\ IF IsErr(res.err)
          THEN /\ Return(Err("error parsing list kind: %v", <<>>))
               /\ LogError("Parsing list kind")
          ELSE Goto(StepAfter("ParseListKind")) /\ UNCHANGED logged
    /\ UNCHANGED <<initErr, params, options, engineStr, versionCheck, store, instance, manifest, gate,
                   deferred, calls>>
    /\ UNCHANGED <<buildVars, watchVars, copyVars>>

\* err = r.injectOwnerRef(ctx, instance, objects)
InjectOwnerRef ==
    /\ pc = "InjectOwnerRef"
    /\ LET res == injectOwnerRef(options.ownerFn, objects.items) IN
       /\ objects' = Objects(res.items)
       /\ calls' = calls \o res.calls
       /\ logged' = logged \o res.logged
       /\ IF IsErr(res.err) THEN Return(res.err) ELSE Goto(StepAfter("InjectOwnerRef"))
    /\ UNCHANGED <<initErr, params, options, engineStr, versionCheck, store, instance, manifest, gate,
                   deferred>>
    /\ UNCHANGED <<buildVars, watchVars, copyVars>>

\* the loop that drops the objects whose live state carries the ignore
\* annotation, and objects.Items = newItems
Filter ==
    /\ pc = "Filter"
    /\ LET res == FilterLoop(objects.items, <<>>, <<>>, <<>>) IN
       /\ objects' = Objects(res.items)
       /\ calls' = calls \o res.calls
       /\ logged' = logged \o res.logged
    /\ Goto(StepAfter("Filter"))
    /\ UNCHANGED <<initErr, params, options, engineStr, versionCheck, store, instance, manifest, gate,
                   deferred>>
    /\ UNCHANGED <<buildVars, watchVars, copyVars>>

\* what errs.Errors() of globalObjectTracker.addIfNotPresent can hold
TrackerErrors == {<<>>, <<"emptyNamespaceErr">>, <<"noRESTMapperErr", "other">>}

\* the log.Error calls of the loop over the tracker's errors, in order
RECURSIVE TrackerLog(_)
TrackerLog(errs) ==
    IF errs = <<>> THEN <<>>
    ELSE (CASE Head(errs) = "noRESTMapperErr" ->
                   <<"failed to get corresponding RESTMapper from API server">>
            [] Head(errs) = "emptyNamespaceErr" -> <<>>
            [] OTHER -> <<"Unknown error">>)
         \o TrackerLog(Tail(errs))

\* globalObjectTracker.addIfNotPresent(objects.Items, ns) when metrics are
\* collected, then r.options.overrideTargetCluster(ctx, instance)
Override ==
    /\ pc = "Override"
    /\ \E errs \in (IF options.metrics THEN TrackerErrors ELSE {<<>>}) :
           IF options.overrideTargetCluster
           THEN \E err \in {NilErr, Err("override failed", <<>>)} :
                    /\ calls' = Append(calls,
                                       Call("overrideTargetCluster", "", NilObjects, err))
                    /\ IF IsErr(err)
                       THEN /\ Return(err)
                            /\ logged' = logged \o TrackerLog(errs)
                                   \o <<"error while overriding target cluster">>
                       ELSE /\ Goto("Apply")
                            /\ logged' = logged \o TrackerLog(errs)
           ELSE /\ Goto("Apply")
                /\ logged' = logged \o TrackerLog(errs)
                /\ UNCHANGED calls
    /\ UNCHANGED <<initErr, params, options, engineStr, versionCheck, store,
                   instance, manifest, objects, gate, deferred>>
    /\ UNCHANGED <<buildVars, watchVars, copyVars>>

\* kubectl.Apply(ctx, ns, objects, r.options.validate, extraArgs...)
Apply ==
    /\ pc = "Apply"
    /\ \E err \in {NilErr, Err("apply failed", <<>>)},
          order \in IterationOrders(LabelMaker) :
           /\ calls' = Append(calls,
                  CallWith("Apply", "", objects, err,
                           extraArgs(options.prune, LabelMaker, order)))
           /\ IF IsErr(err)
              THEN /\ Return(Err("error applying manifest: %v", <<>>))
                   /\ LogError("applying manifest")
              ELSE Goto("Notify") /\ UNCHANGED logged
    /\ UNCHANGED <<initErr, params, options, engineStr, versionCheck, store, instance, manifest, objects,
                   gate, deferred>>
    /\ UNCHANGED <<buildVars, watchVars, copyVars>>

\* NotifyResult with the error of the observer dropped
NotifyResultSwallowed(err) == NilErr

\* what reconcileExists returns after sink.Notify returned err
NotifyResult(err) == IF IsErr(err) THEN err ELSE NilErr

\* a panic on the goroutine of the pass: the deferred steps run, and the
\* caller of Reconcile gets the panic in place of a result
Panic(value) == Return(value)

\* if r.options.sink != nil: the first read of the field
Notify ==
    /\ pc = "Notify"
    /\ IF options.sink
       THEN Goto("NotifyCall")
       ELSE Return(NilErr)
    /\ UNCHANGED <<calls, logged>>
    /\ UNCHANGED <<initErr, params, options, engineStr, versionCheck, store,
                   instance, manifest, objects, gate, deferred>>
    /\ UNCHANGED <<buildVars, watchVars, copyVars>>

\* r.options.sink.Notify(ctx, instance, objects): the second read of the
\* field, the call and the final return. The field is read and written with
\* no synchronisation: after a SetSink(nil) the call is made on a nil
\* interface, and a read that overlaps a SetSink call gives a torn value
NotifyCall ==
    /\ pc = "NotifyCall"
    /\ \/ /\ options.sink
          /\ \E err \in {NilErr, Err("notify failed", <<>>)} :
                 /\ calls' = Append(calls, Call("Notify", "", objects, err))
                 /\ Return(NotifyResult(err))
                 /\ IF IsErr(err) THEN LogError("notifying sink") ELSE UNCHANGED logged
          /\ UNCHANGED options
       \/ /\ ~options.sink
          /\ Panic(NilDereference)
          /\ UNCHANGED <<calls, logged, options>>
       \/ /\ \E sink \in BOOLEAN : options' = [options EXCEPT !.sink = sink]
          /\ Panic(NilDereference)
          /\ UNCHANGED <<calls, logged>>
    /\ UNCHANGED <<initErr, params, engineStr, versionCheck, store,
                   instance, manifest, objects, gate, deferred>>
    /\ UNCHANGED <<buildVars, watchVars, copyVars>>

\* DeferredResult handing the error of Reconciled to the caller
DeferredResultEscalates(returned, err) == IF IsErr(err) THEN Ret(err) ELSE returned

\* the result of the pass once the deferred function has run with the
\* error err of Reconciled: the function only logs
DeferredResult(returned, err) == returned

\* the deferred function: r.options.status.Reconciled(ctx, instance, objects)
Deferred ==
    /\ pc = "Deferred"
    /\ IF options.status
       THEN \E err \in {NilErr, Err("reconciled failed", <<>>)} :
                /\ calls' = Append(calls, Call("Reconciled", "", objects, err))
                /\ ret' = DeferredResult(ret, err)
                /\ IF IsErr(err)
                   THEN LogError("failed to reconcile status")
                   ELSE UNCHANGED logged
       ELSE UNCHANGED <<calls, logged, ret>>
    /\ pc' = "Done"
    /\ UNCHANGED <<initErr, params, options, engineStr, versionCheck, store, instance, manifest, objects,
                   gate, deferred, retAtReturn>>
    /\ UNCHANGED <<buildVars, watchVars, copyVars>>

Next ==
    \/ ReconcilerInit
    \/ SetSink
    \/ Fetch
    \/ Preflight
    \/ Build
    \/ VersionGate
    \/ StatusUpdate
    \/ ParseListKind
    \/ InjectOwnerRef
    \/ Filter
    \/ Override
    \/ Apply
    \/ Notify
    \/ NotifyCall
    \/ Deferred

Spec == Init /\ [][Next]_vars

----------------------------------------------------------------------------
(* The version gate on its own: NewVersionCheck on a version string, then  *)
(* VersionCheck on an object set.                                          *)

GateEngineStrings ==
    {V_1_4_0, V_1_6_0, V_invalid, V_short, V_gap, V_range, V_rc, V_plus}

GateAnnotations ==
    {NoAnn, Ann(V_1_2_0), Ann(V_1_5_0), Ann(V_invalid), Ann(V_1_10_0), Ann(V_0_0_0),
     Ann(V_padded), Ann(V_rc), Ann(V_rc_2), Ann(V_build), Ann(V_dash)}

\* the item lists of at most MaxGateObjs objects, each with an annotation
GateItemLists ==
    UNION { { [i \in 1..n |-> Obj("obj", "", "ConfigMap", f[i], <<>>)] :
                f \in [1..n -> GateAnnotations] } : n \in 0..MaxGateObjs }

InitGate ==
    /\ pc = "NewVersionCheck"
    /\ options = [status |-> TRUE, sink |-> FALSE, ownerFn |-> FALSE,
                  overrideTargetCluster |-> FALSE, prune |-> FALSE, labelMaker |-> FALSE,
                  kustomize |-> FALSE, manifestController |-> TRUE, metrics |-> FALSE]
    /\ engineStr \in GateEngineStrings
    /\ versionCheck = [ok |-> FALSE, version |-> zeroVersion, err |-> NilErr]
    /\ store = [status |-> CommonStatus(TRUE, <<>>), updates |-> <<>>]
    /\ \E common \in BOOLEAN :
           instance = [isCommon |-> common, status |-> CommonStatus(TRUE, <<>>)]
    /\ manifest \in GateItemLists
    /\ objects = Objects(manifest)
    /\ gate = [called |-> FALSE, valid |-> FALSE, err |-> NilErr]
    /\ deferred = FALSE
    /\ calls = <<>>
    /\ logged = <<>>
    /\ ret = Ret(NilErr)
    /\ retAtReturn = Ret(NilErr)
    /\ initErr = NilErr
    /\ params = options
    /\ BuildIdle
    /\ WatchIdle
    /\ CopiesIdle

\* p, err := NewVersionCheck(client, engineStr)
GateConstruct ==
    /\ pc = "NewVersionCheck"
    /\ versionCheck' = NewVersionCheck(engineStr)
    /\ pc' = IF versionCheck'.ok THEN "GateReady" ELSE "GateRefused"
    /\ UNCHANGED <<initErr, params, options, engineStr, store, instance, manifest, objects, gate, deferred,
                   calls, logged, ret, retAtReturn>>
    /\ UNCHANGED <<buildVars, watchVars, copyVars>>

\* p.VersionCheck(ctx, instance, objects)
GateCheck ==
    /\ pc = "GateReady"
    /\ LET res == VersionCheck(versionCheck, instance, objects.items) IN
       /\ gate' = [called |-> TRUE, valid |-> res.valid, err |-> res.err]
       /\ instance' = [instance EXCEPT !.status = res.status]
       /\ logged' = logged \o res.logged
    /\ pc' = "GateDone"
    /\ UNCHANGED <<initErr, params, options, engineStr, versionCheck, store, manifest, objects, deferred,
                   calls, ret, retAtReturn>>
    /\ UNCHANGED <<buildVars, watchVars, copyVars>>

NextGate == GateConstruct \/ GateCheck

SpecGate == InitGate /\ [][NextGate]_vars

----------------------------------------------------------------------------
(* The earlier preflight checks of the same file: NewPreflightChecks and   *)
(* the two revisions of preflightChecks.Preflight, the first reading the   *)
(* requirement of the Application object, the second the maximum over all  *)
(* objects.                                                                *)

\* an object handed to a Preflight: a manifest.Object, and whether
\* FromUnstructured converts its content to an appsv1beta1.Application
PreflightObj(kind, ann, converts) ==
    [name |-> "obj", group |-> "", kind |-> kind, ann |-> ann, elems |-> <<>>,
     ownerRefs |-> <<>>, converts |-> converts]

\* the loop of the first Preflight over objs.Items: the annotation of the
\* Application visited last among those that convert, the empty string
\* when it has none; an Application that does not convert is skipped
RECURSIVE LastApplicationVersion(_, _)
LastApplicationVersion(items, versionNeededStr) ==
    IF items = <<>> THEN versionNeededStr
    ELSE LET obj == Head(items) IN
         LastApplicationVersion(Tail(items),
             IF obj.kind = "Application" /\ obj.converts
             THEN (IF obj.ann.has THEN obj.ann.val ELSE <<>>)
             ELSE versionNeededStr)

\* what a Preflight returns when the requirement needed is above the
\* operator's version: the error, and the status of src
NotQualified(src, needed, operatorVersion) ==
    IF ~src.isCommon
    THEN [err |-> Err("object %T was not an addonsv1alpha1.CommonObject", <<>>),
          status |-> src.status]
    ELSE [err |-> Err("Operator not qualified, manifest needs operator >= %v",
                      VersionString(needed)),
          status |-> MismatchStatus(needed, operatorVersion)]

\* preflightChecks.Preflight(ctx, src, objs), first revision: error, and the
\* status of src when it returns
PreflightOfApplication(version, src, items) ==
    LET versionNeededStr == LastApplicationVersion(items, <<>>)
        versionNeeded    == SemverMake(versionNeededStr)
        operatorVersion  == SemverMake(version)
    IN  IF versionNeededStr = <<>> THEN [err |-> NilErr, status |-> src.status]
        ELSE IF IsErr(versionNeeded.err) THEN [err |-> NilErr, status |-> src.status]
        ELSE IF IsErr(operatorVersion.err) THEN [err |-> NilErr, status |-> src.status]
        ELSE IF VersionGT(versionNeeded.v, operatorVersion.v)
        THEN NotQualified(src, versionNeeded.v, operatorVersion.v)
        ELSE [err |-> NilErr, status |-> src.status]

\* the loop of the second Preflight over objs.Items: the maximum of the
\* requirements that parse; an object whose annotation does not parse is
\* skipped
RECURSIVE MaxParsedVersion(_, _)
MaxParsedVersion(items, maxVersion) ==
    IF items = <<>> THEN maxVersion
    ELSE LET obj  == Head(items)
             made == SemverMake(IF obj.ann.has THEN obj.ann.val ELSE <<>>)
         IN  MaxParsedVersion(Tail(items),
                 IF ~IsErr(made.err) /\ VersionGT(made.v, maxVersion)
                 THEN made.v ELSE maxVersion)

\* preflightChecks.Preflight(ctx, src, objs), second revision: error, and
\* the status of src when it returns
PreflightOfMaxVersion(version, src, items) ==
    LET maxVersion      == MaxParsedVersion(items, zeroVersion)
        operatorVersion == SemverMake(version)
    IN  IF VersionEquals(maxVersion, zeroVersion) THEN [err |-> NilErr, status |-> src.status]
        ELSE IF IsErr(operatorVersion.err) THEN [err |-> NilErr, status |-> src.status]
        ELSE IF VersionGT(maxVersion, operatorVersion.v)
        THEN NotQualified(src, maxVersion, operatorVersion.v)
        ELSE [err |-> NilErr, status |-> src.status]

PreflightAnnotations == {NoAnn, Ann(V_1_2_0), Ann(V_1_5_0), Ann(V_invalid), Ann(V_0_0_0)}

\* the item lists of at most MaxGateObjs objects, each with an annotation:
\* an Application that converts, one that does not, or a ConfigMap
PreflightItemLists ==
    UNION { [1..n -> { PreflightObj("Application", a, c) :
                           a \in PreflightAnnotations, c \in BOOLEAN }
                     \cup { PreflightObj("ConfigMap", a, FALSE) :
                               a \in PreflightAnnotations }] :
            n \in 0..MaxGateObjs }

InitPreflight ==
    /\ pc = "NewPreflightChecks"
    /\ options = [status |-> TRUE, sink |-> FALSE, ownerFn |-> FALSE,
                  overrideTargetCluster |-> FALSE, prune |-> FALSE, labelMaker |-> FALSE,
                  kustomize |-> FALSE, manifestController |-> TRUE, metrics |-> FALSE]
    /\ engineStr \in GateEngineStrings
    /\ versionCheck = [ok |-> FALSE, version |-> zeroVersion, err |-> NilErr]
    /\ store = [status |-> CommonStatus(TRUE, <<>>), updates |-> <<>>]
    /\ \E common \in BOOLEAN :
           instance = [isCommon |-> common, status |-> CommonStatus(TRUE, <<>>)]
    /\ manifest \in PreflightItemLists
    /\ objects = Objects(manifest)
    /\ gate = [called |-> FALSE, valid |-> FALSE, err |-> NilErr]
    /\ deferred = FALSE
    /\ calls = <<>>
    /\ logged = <<>>
    /\ ret = Ret(NilErr)
    /\ retAtReturn = Ret(NilErr)
    /\ initErr = NilErr
    /\ params = options
    /\ BuildIdle
    /\ WatchIdle
    /\ CopiesIdle

\* p := NewPreflightChecks(client, engineStr): the string is kept as it is,
\* and no error is returned
NewPreflightChecks ==
    /\ pc = "NewPreflightChecks"
    /\ pc' = "PreflightReady"
    /\ UNCHANGED <<initErr, params, options, engineStr, versionCheck, store, instance, manifest,
                   objects, gate, deferred, calls, logged, ret, retAtReturn>>
    /\ UNCHANGED <<buildVars, watchVars, copyVars>>

\* the call of a Preflight with result res
PreflightCalled(res) ==
    /\ calls' = Append(calls, Call("Preflight", "", objects, res.err))
    /\ instance' = [instance EXCEPT !.status = res.status]
    /\ pc' = "PreflightDone"
    /\ UNCHANGED <<initErr, params, options, engineStr, versionCheck, store, manifest, objects,
                   gate, deferred, logged, ret, retAtReturn>>
    /\ UNCHANGED <<buildVars, watchVars, copyVars>>

\* p.Preflight(ctx, instance, objects), first revision
PreflightApplication ==
    /\ pc = "PreflightReady"
    /\ PreflightCalled(PreflightOfApplication(engineStr, instance, objects.items))

\* p.Preflight(ctx, instance, objects), second revision
PreflightMaxVersion ==
    /\ pc = "PreflightReady"
    /\ PreflightCalled(PreflightOfMaxVersion(engineStr, instance, objects.items))

NextPreflight == NewPreflightChecks \/ PreflightApplication \/ PreflightMaxVersion

SpecPreflight == InitPreflight /\ [][NextPreflight]_vars

\* the second revision of Preflight skips annotations that do not parse and
\* passes when the operator's version does not parse: it returns an error
\* exactly when the operator's version parses and some annotation parses
\* to a version above it
EarlierPreflightSkipsAndFailsOpen ==
    LET res      == PreflightOfMaxVersion(engineStr, instance, objects.items)
        operator == SemverMake(engineStr)
    IN  IsErr(res.err) <=>
            /\ ~IsErr(operator.err)
            /\ \E i \in DOMAIN objects.items :
                   LET obj == objects.items[i] IN
                   /\ obj.ann.has
                   /\ ~IsErr(SemverMake(obj.ann.val).err)
                   /\ VersionGT(SemverMake(obj.ann.val).v, operator.v)

----------------------------------------------------------------------------
(* The manifest builder on its own: BuildDeploymentObjectsWithFs called    *)
(* repeatedly for the same desired-state object, with nothing changing in  *)
(* between.                                                                *)

\* a second file in the directory of PathA
PathC == <<"channels", "a", "extra.yaml">>

BuildPaths == {PathA, PathB, PathC}

\* the parsed documents the files hold: objects in document order, and blobs
DocSet ==
    { Doc(<<Catalogue[4], Catalogue[1]>>, <<>>),
      Doc(<<Catalogue[2]>>, <<"blob-1">>),
      Doc(<<Catalogue[5], Catalogue[3]>>, <<"blob-2">>) }

\* what the manifest controller can resolve: a document for each path of a
\* set of paths
FileSets == UNION { [S -> DocSet] : S \in SUBSET BuildPaths }

InitBuild ==
    /\ pc = "Build"
    /\ \E kustomize \in BOOLEAN :
           options = [status |-> FALSE, sink |-> FALSE, ownerFn |-> FALSE,
                      overrideTargetCluster |-> FALSE, prune |-> FALSE,
                      labelMaker |-> FALSE, kustomize |-> kustomize,
                      manifestController |-> TRUE, metrics |-> FALSE]
    /\ engineStr = V_1_4_0
    /\ versionCheck = NewVersionCheck(engineStr)
    /\ store = [status |-> CommonStatus(TRUE, <<>>), updates |-> <<>>]
    /\ instance = [isCommon |-> TRUE, status |-> CommonStatus(TRUE, <<>>)]
    /\ manifest = <<>>
    /\ objects = NilObjects
    /\ gate = [called |-> FALSE, valid |-> FALSE, err |-> NilErr]
    /\ deferred = FALSE
    /\ calls = <<>>
    /\ logged = <<>>
    /\ ret = Ret(NilErr)
    /\ retAtReturn = Ret(NilErr)
    /\ initErr = NilErr
    /\ params = options
    /\ manifestFiles \in FileSets
    /\ builds = <<>>
    /\ WatchIdle
    /\ CopiesIdle

\* one call of BuildDeploymentObjectsWithFs, with a file system or, as
\* BuildDeploymentObjects calls it, with none: the range over the resolved
\* files visits them in some order, and at most one step fails
BuildManifest ==
    /\ Len(builds) < MaxBuilds
    /\ \E hasFs \in BOOLEAN :
       \E order \in IterationOrders(manifestFiles),
          fault \in Faults(manifestFiles, hasFs, options.kustomize) :
           builds' = Append(builds,
               BuildDeploymentObjectsWithFs(manifestFiles, order, fault,
                                            hasFs, options.kustomize))
    /\ UNCHANGED manifestFiles
    /\ UNCHANGED <<passVars, watchVars, copyVars>>

NextBuild == BuildManifest

SpecBuild == InitBuild /\ [][NextBuild]_vars

----------------------------------------------------------------------------
(* The dynamic watch: dynamicWatch.AddForGVR, the goroutine it starts and  *)
(* dynamicWatch.watchUntilClosed.                                          *)

\* WatchDelay, in seconds
WatchDelay == 30

\* the calls of AddForGVR the controller makes, in order: the context, the
\* resource to watch, the list filter and the callback
RegistrationCalls ==
    << [ctx |-> "ctx-1", trigger |-> "pods",
        options |-> "app=addon", callback |-> "callback-1"],
       [ctx |-> "ctx-2", trigger |-> "configmaps",
        options |-> "",          callback |-> "callback-2"] >>

\* dw.newDynamicClient(gvr): (dynamic.ResourceInterface, error)
newDynamicClient(gvr) == [resource |-> gvr, err |-> NilErr]

\* no call of client.Watch yet
NoWatchCall == [resource |-> "", options |-> "", made |-> FALSE]

\* WatchCall without the list filter
WatchCallUnfiltered(l) == [resource |-> l.client.resource, options |-> "", made |-> TRUE]

\* client.Watch(ctx, options) as the loop l calls it: on the client made at
\* the registration, with the options of the registration
WatchCall(l) == [resource |-> l.client.resource, options |-> l.options, made |-> TRUE]

\* the k-th event the server sends on the connection conn of a loop
Event(conn, k) ==
    [type |-> IF k = 1 THEN "ADDED" ELSE "MODIFIED", conn |-> conn, seq |-> k]

NoEvent == [type |-> "", conn |-> 0, seq |-> 0]

\* the goroutine of AddForGVR at its start: the values its closure holds
\* (cancelled: whether its context is done), its position, the calls of
\* client.Watch it made, the calls of events.Stop and the time it slept, and
\* for its current connection the result channel, the events the server
\* sent, the calls of the callback and the number of them that returned
NewLoop(ctx, client, trigger, listOptions, callback) ==
    [ctx         |-> ctx,
     cancelled   |-> FALSE,
     client      |-> client,
     trigger     |-> trigger,
     options     |-> listOptions,
     callback    |-> callback,
     pc          |-> "Watch",
     attempts    |-> 0,
     lastCall    |-> NoWatchCall,
     slept       |-> 0,
     conn        |-> 0,
     stops       |-> 0,
     disconnects |-> 0,
     chan        |-> <<>>,
     closed      |-> FALSE,
     ev          |-> NoEvent,
     sent        |-> <<>>,
     delivered   |-> <<>>,
     returned    |-> 0]

InitWatchWith(callsToMake, inbox, served) ==
    /\ pc = "Watch"
    /\ options = [status |-> FALSE, sink |-> FALSE, ownerFn |-> FALSE,
                  overrideTargetCluster |-> FALSE, prune |-> FALSE,
                  labelMaker |-> FALSE, kustomize |-> FALSE,
                  manifestController |-> TRUE, metrics |-> FALSE]
    /\ engineStr = V_1_4_0
    /\ versionCheck = NewVersionCheck(engineStr)
    /\ store = [status |-> CommonStatus(TRUE, <<>>), updates |-> <<>>]
    /\ instance = [isCommon |-> TRUE, status |-> CommonStatus(TRUE, <<>>)]
    /\ manifest = <<>>
    /\ objects = NilObjects
    /\ gate = [called |-> FALSE, valid |-> FALSE, err |-> NilErr]
    /\ deferred = FALSE
    /\ calls = <<>>
    /\ logged = <<>>
    /\ ret = Ret(NilErr)
    /\ retAtReturn = Ret(NilErr)
    /\ initErr = NilErr
    /\ params = options
    /\ BuildIdle
    /\ CopiesIdle
    /\ registrations = <<>>
    /\ loops = <<>>
    /\ pendingCalls = callsToMake
    /\ received = inbox
    /\ world = served

\* the controller is about to make the calls of RegistrationCalls
InitWatch == InitWatchWith(RegistrationCalls, <<>>, <<>>)

\* the body of dw.AddForGVR(ctx, trigger, options, callback), the call
\* being recorded as `call`: the client is made, the goroutine is started,
\* and nil is returned
StartLoop(call, ctx, trigger, listOptions, callback) ==
    LET made == newDynamicClient(trigger)
    IN  IF IsErr(made.err)
        THEN /\ registrations' = Append(registrations,
                    [call |-> call, started |-> FALSE,
                     err |-> Err("creating client for (%s): %v", <<>>)])
             /\ UNCHANGED loops
        ELSE /\ registrations' = Append(registrations,
                    [call |-> call, started |-> TRUE, err |-> NilErr])
             /\ loops' = Append(loops,
                    NewLoop(ctx, made, trigger, listOptions, callback))

\* dw.AddForGVR(ctx, trigger, options, callback), called by the controller
AddForGVR ==
    /\ pendingCalls # <<>>
    /\ "callback" \in DOMAIN Head(pendingCalls)
    /\ LET call == Head(pendingCalls)
       IN  StartLoop(call, call.ctx, call.trigger, call.options, call.callback)
    /\ pendingCalls' = Tail(pendingCalls)
    /\ UNCHANGED <<received, world>>
    /\ UNCHANGED <<passVars, buildVars, copyVars>>

\* the loop r goes on as the record l
PutLoop(r, l) ==
    /\ loops' = [loops EXCEPT ![r] = l]
    /\ UNCHANGED registrations
    /\ UNCHANGED <<passVars, buildVars, copyVars>>

\* the loop r goes on as the record l, and nothing else changes
SetLoop(r, l) ==
    /\ PutLoop(r, l)
    /\ UNCHANGED outVars

\* the API server may let the loop down once more
MayDisconnect(l) == l.disconnects < MaxDisconnects

\* the goroutine that ends when client.Watch fails on a context that is done
AfterFailedWatchExits(l) == IF l.cancelled THEN "Exit" ELSE "Sleep"

\* where the goroutine goes when watchUntilClosed returned on the error of
\* client.Watch: to time.Sleep, whatever the error
AfterFailedWatch(l) == "Sleep"

\* events, err := client.Watch(ctx, options) in watchUntilClosed: the watch
\* begins with the events `first` already sent by the API server, or the
\* error is logged and watchUntilClosed returns. On a context that is done
\* client.Watch fails.
WatchOpenWith(r, first) ==
    /\ loops[r].pc = "Watch"
    /\ LET l == loops[r] IN
       \/ /\ ~l.cancelled
          /\ SetLoop(r, [l EXCEPT !.pc = "Range",
                                  !.attempts = l.attempts + 1,
                                  !.lastCall = WatchCall(l),
                                  !.conn = l.conn + 1,
                                  !.chan = first,
                                  !.closed = FALSE,
                                  !.sent = first,
                                  !.delivered = <<>>,
                                  !.returned = 0])
       \/ /\ ~l.cancelled
          /\ MayDisconnect(l)
          /\ SetLoop(r, [l EXCEPT !.pc = AfterFailedWatch(l),
                                  !.attempts = l.attempts + 1,
                                  !.lastCall = WatchCall(l),
                                  !.disconnects = l.disconnects + 1])
       \/ /\ l.cancelled
          /\ l.attempts < MaxAttempts
          /\ SetLoop(r, [l EXCEPT !.pc = AfterFailedWatch(l),
                                  !.attempts = l.attempts + 1,
                                  !.lastCall = WatchCall(l)])

\* client.Watch against a server that sends what happens from now on
WatchOpen(r) == WatchOpenWith(r, <<>>)

\* the context of the registration is cancelled by the caller of AddForGVR:
\* an open watch of the loop ends, its result channel is closed
CtxCancel(r) ==
    /\ ~loops[r].cancelled
    /\ LET l == loops[r] IN
       SetLoop(r, [l EXCEPT !.cancelled = TRUE,
                            !.closed = IF l.pc \in {"Range", "Callback"}
                                       THEN TRUE ELSE l.closed])

\* the API server sends an event on the open connection of the loop
ServerSend(r) ==
    /\ loops[r].pc \in {"Range", "Callback"}
    /\ LET l == loops[r]
           k == Len(l.sent) + 1
       IN  /\ ~l.closed
           /\ Len(l.chan) < ChanCap
           /\ k <= MaxEvents
           /\ SetLoop(r, [l EXCEPT !.chan = Append(l.chan, Event(l.conn, k)),
                                   !.sent = Append(l.sent, Event(l.conn, k))])

\* the connection of the loop is lost: the result channel is closed
ServerClose(r) ==
    /\ loops[r].pc \in {"Range", "Callback"}
    /\ LET l == loops[r] IN
       /\ ~l.closed
       /\ MayDisconnect(l)
       /\ SetLoop(r, [l EXCEPT !.closed = TRUE, !.disconnects = l.disconnects + 1])

\* Dequeue handing out the newest of the waiting events
DequeueNewest(chan) == [ev |-> chan[Len(chan)], rest |-> SubSeq(chan, 1, Len(chan) - 1)]

\* a receive of the range statement on the result channel: the oldest of
\* the waiting events, and the channel without it
Dequeue(chan) == [ev |-> Head(chan), rest |-> Tail(chan)]

\* for ev := range events.ResultChan(): the next event is received and
\* callback(ev) is called
Receive(r) ==
    /\ loops[r].pc = "Range"
    /\ LET l == loops[r] IN
       /\ l.chan # <<>>
       /\ SetLoop(r, [l EXCEPT !.pc = "Callback",
                               !.ev = Dequeue(l.chan).ev,
                               !.chan = Dequeue(l.chan).rest,
                               !.delivered = Append(l.delivered,
                                                    [callback |-> l.callback,
                                                     ev |-> Dequeue(l.chan).ev])])

\* callback(ev) returns: the range statement goes on
CallbackReturn(r) ==
    /\ loops[r].pc = "Callback"
    /\ LET l == loops[r] IN
       SetLoop(r, [l EXCEPT !.pc = "Range",
                            !.ev = NoEvent,
                            !.returned = l.returned + 1])

\* Stop that does not stop the watch
StopLeaks(l) == l.stops

\* defer events.Stop(): the calls of Stop the loop made, one more
Stop(l) == l.stops + 1

\* the range statement ends on the closed and drained channel: the watch is
\* stopped and watchUntilClosed returns
RangeEnd(r) ==
    /\ loops[r].pc = "Range"
    /\ LET l == loops[r] IN
       /\ l.chan = <<>>
       /\ l.closed
       /\ SetLoop(r, [l EXCEPT !.pc = "Sleep", !.stops = Stop(l)])

\* time.Sleep(WatchDelay), then the next round of the loop
Sleep(r) ==
    /\ loops[r].pc = "Sleep"
    /\ LET l == loops[r] IN
       SetLoop(r, [l EXCEPT !.pc = "Watch", !.slept = l.slept + WatchDelay])

\* the steps of the goroutine of registration r
LoopStep(r) == WatchOpen(r) \/ Receive(r) \/ CallbackReturn(r) \/ RangeEnd(r) \/ Sleep(r)

NextWatch ==
    \/ AddForGVR
    \/ \E r \in DOMAIN loops : WatchOpen(r)
    \/ \E r \in DOMAIN loops : ServerSend(r)
    \/ \E r \in DOMAIN loops : ServerClose(r)
    \/ \E r \in DOMAIN loops : Receive(r)
    \/ \E r \in DOMAIN loops : CallbackReturn(r)
    \/ \E r \in DOMAIN loops : RangeEnd(r)
    \/ \E r \in DOMAIN loops : Sleep(r)

SpecWatch == InitWatch /\ [][NextWatch]_vars

\* the goroutines are scheduled and the callbacks return
SpecWatchFair ==
    /\ SpecWatch
    /\ \A r \in DOMAIN RegistrationCalls : WF_vars(r \in DOMAIN loops /\ LoopStep(r))

\* the watch loops of callers that may cancel the context they passed to
\* AddForGVR
NextCancel ==
    \/ AddForGVR
    \/ \E r \in DOMAIN loops : CtxCancel(r)
    \/ \E r \in DOMAIN loops : WatchOpen(r)
    \/ \E r \in DOMAIN loops : ServerSend(r)
    \/ \E r \in DOMAIN loops : ServerClose(r)
    \/ \E r \in DOMAIN loops : Receive(r)
    \/ \E r \in DOMAIN loops : CallbackReturn(r)
    \/ \E r \in DOMAIN loops : RangeEnd(r)
    \/ \E r \in DOMAIN loops : Sleep(r)

\* the controller is about to make the first call of RegistrationCalls
InitCancel == InitWatchWith(<<RegistrationCalls[1]>>, <<>>, <<>>)

SpecCancel == InitCancel /\ [][NextCancel]_vars

\* the goroutine is scheduled and the callbacks return
SpecCancelFair ==
    /\ SpecCancel
    /\ WF_vars(1 \in DOMAIN loops /\ LoopStep(1))

----------------------------------------------------------------------------
(* The high-level registration: dynamicWatch.Add, the callback it builds   *)
(* and the channel dw.events made by NewDynamicWatch.                      *)

\* dw.restMapper.RESTMapping(trigger.GroupKind(), trigger.Version): the
\* resource of a kind the API server has, an error for any other kind
RESTMapping(kind) ==
    IF kind = "Pod" THEN [resource |-> "pods", err |-> NilErr]
    ELSE IF kind = "ConfigMap" THEN [resource |-> "configmaps", err |-> NilErr]
    ELSE [resource |-> "", err |-> Err("no matches for kind", <<>>)]

\* the calls of Add the controller makes, in order: the kind to watch, the
\* list filter and the metadata of the target
AddCalls ==
    << [trigger |-> "Pod", options |-> "app=addon",
        target |-> [name |-> "addon-a", namespace |-> "ns-a"]],
       [trigger |-> "ConfigMap", options |-> "",
        target |-> [name |-> "addon-b", namespace |-> "ns-b"]],
       [trigger |-> "Widget", options |-> "",
        target |-> [name |-> "addon-a", namespace |-> "ns-a"]] >>

\* the metadata of the object of a watched resource
TriggerMeta(resource) == [name |-> resource \o "-0", namespace |-> "default"]

\* the metadata of a metav1.Status: no name and no namespace
StatusMeta == [name |-> "", namespace |-> ""]

\* ev.Object of an event of the watch on a resource: the watched object as
\* it was when the event was sent, or the status of an ERROR event
EventObject(resource, ev) ==
    IF ev.type = "ERROR"
    THEN [resource |-> "Status", meta |-> StatusMeta, at |-> <<ev.conn, ev.seq>>]
    ELSE [resource |-> resource, meta |-> TriggerMeta(resource), at |-> <<ev.conn, ev.seq>>]

\* the callback that names the triggering object
GenericEventOfTrigger(target, obj) ==
    [Object |-> [Object |-> obj, ObjectMeta |-> obj.meta]]

\* event.GenericEvent{Object: clientObject{Object: ev.Object, ObjectMeta: &target}}
GenericEvent(target, obj) ==
    [Object |-> [Object |-> obj, ObjectMeta |-> target]]

\* clientObject.GetName() and GetNamespace(), promoted from *ObjectMeta
Identity(clientObject) == clientObject.ObjectMeta

\* the callback of Add: a closure over target
Closure(target) == [func |-> "Add.func1", target |-> target]

\* what the callback of Add sends for the event ev of the watch on a resource
CallbackEvent(callback, resource, ev) ==
    GenericEvent(callback.target, EventObject(resource, ev))

\* the consumer of dw.events has received nothing: one list per identity
EmptyInbox ==
    [id \in {AddCalls[i].target : i \in DOMAIN AddCalls}
             \cup {TriggerMeta(RESTMapping(AddCalls[i].trigger).resource) :
                       i \in DOMAIN AddCalls}
             \cup {StatusMeta} |-> <<>>]

\* dw.Add(trigger, options, target): the kind is mapped to its resource, and
\* AddForGVR is called with context.TODO() and the callback that sends on
\* dw.events
Add ==
    /\ pendingCalls # <<>>
    /\ "target" \in DOMAIN Head(pendingCalls)
    /\ LET call    == Head(pendingCalls)
           mapping == RESTMapping(call.trigger)
       IN  IF IsErr(mapping.err)
           THEN /\ registrations' = Append(registrations,
                       [call |-> call, started |-> FALSE, err |-> mapping.err])
                /\ UNCHANGED loops
           ELSE StartLoop(call, "context.TODO()", mapping.resource, call.options,
                          Closure(call.target))
    /\ pendingCalls' = Tail(pendingCalls)
    /\ UNCHANGED <<received, world>>
    /\ UNCHANGED <<passVars, buildVars, copyVars>>

\* a channel that holds the last event only
TakeLastOnly(inbox, id, msg) == [inbox EXCEPT ![id] = <<msg>>]

\* the consumer takes the event msg from dw.events and files it under the
\* identity it carries
Take(inbox, id, msg) == [inbox EXCEPT ![id] = Append(@, msg)]

\* the watched object is no longer waiting for a trigger
Triggered(resource) ==
    IF resource \in DOMAIN world
    THEN [world EXCEPT ![resource].untriggered = FALSE]
    ELSE world

\* dw.events <- event.GenericEvent{...} in the callback of loop r, and the
\* receive of the consumer: the channel has no buffer, so the callback
\* returns when the consumer has taken the event
EventsReceive(r) ==
    /\ loops[r].pc = "Callback"
    /\ LET l   == loops[r]
           msg == CallbackEvent(l.callback, l.trigger, l.ev)
       IN  /\ received' = Take(received, Identity(msg.Object), msg)
           /\ world' = Triggered(l.trigger)
           /\ PutLoop(r, [l EXCEPT !.pc = "Range",
                                   !.ev = NoEvent,
                                   !.returned = l.returned + 1])
    /\ UNCHANGED pendingCalls

\* the API server ends the stream of the loop when it has sent its events
StreamEnd(r) ==
    /\ Len(loops[r].sent) = MaxEvents
    /\ ServerClose(r)

\* the controller is about to make the calls of AddCalls
InitEvents == InitWatchWith(AddCalls, EmptyInbox, <<>>)

NextEvents ==
    \/ Add
    \/ \E r \in DOMAIN loops : WatchOpen(r)
    \/ \E r \in DOMAIN loops : ServerSend(r)
    \/ \E r \in DOMAIN loops : StreamEnd(r)
    \/ \E r \in DOMAIN loops : Receive(r)
    \/ \E r \in DOMAIN loops : EventsReceive(r)
    \/ \E r \in DOMAIN loops : RangeEnd(r)
    \/ \E r \in DOMAIN loops : Sleep(r)

SpecEvents == InitEvents /\ [][NextEvents]_vars

\* the steps of the goroutine of registration r other than its callback
LoopStepOutsideCallback(r) == WatchOpen(r) \/ Receive(r) \/ RangeEnd(r) \/ Sleep(r)

\* the controller makes its calls, the goroutines are scheduled and the
\* consumer keeps receiving: a sender that waits on dw.events is served
SpecEventsFair ==
    /\ SpecEvents
    /\ WF_vars(Add)
    /\ \A r \in DOMAIN AddCalls :
           /\ WF_vars(r \in DOMAIN loops /\ LoopStepOutsideCallback(r))
           /\ WF_vars(r \in DOMAIN loops /\ EventsReceive(r))

----------------------------------------------------------------------------
(* The API server's side of a watch: the watched object, its changes, and  *)
(* the events of a watch opened with no resource version.                  *)

\* the types of watch.Event
EventTypes == {"ADDED", "MODIFIED", "DELETED", "ERROR"}

\* an event of the given type, the k-th of the connection conn
TypedEvent(type, conn, k) == [type |-> type, conn |-> conn, seq |-> k]

\* a watched resource with one object that matches the list filter
Served(exists) ==
    [resource \in {"pods"} |-> [exists |-> exists, changes |-> 0, untriggered |-> FALSE]]

\* what a watch opened with no resource version starts with: an ADDED event
\* for the object that exists
Listing(l) ==
    IF world[l.trigger].exists
    THEN <<TypedEvent("ADDED", l.conn + 1, 1)>>
    ELSE <<>>

\* client.Watch against the API server
WatchOpenListing(r) == WatchOpenWith(r, Listing(loops[r]))

\* the loop has an open watch on the resource
Watching(l, resource) ==
    /\ l.trigger = resource
    /\ l.pc \in {"Range", "Callback"}
    /\ ~l.closed

\* the object of a resource is created, modified or deleted: the API server
\* sends the event to the open watches on the resource
Change(resource, type) ==
    /\ world[resource].changes < MaxChanges
    /\ type \in {"ADDED", "MODIFIED", "DELETED"}
    /\ (type = "ADDED") <=> ~world[resource].exists
    /\ \A r \in DOMAIN loops :
           Watching(loops[r], resource) => Len(loops[r].chan) < ChanCap
    /\ loops' = [r \in DOMAIN loops |->
                    LET l  == loops[r]
                        ev == TypedEvent(type, l.conn, Len(l.sent) + 1)
                    IN  IF Watching(l, resource)
                        THEN [l EXCEPT !.chan = Append(l.chan, ev),
                                       !.sent = Append(l.sent, ev)]
                        ELSE l]
    /\ world' = [world EXCEPT ![resource] =
                    [exists      |-> type # "DELETED",
                     changes     |-> @.changes + 1,
                     untriggered |-> @.untriggered
                                     \/ \E r \in DOMAIN loops : loops[r].trigger = resource]]
    /\ UNCHANGED <<registrations, pendingCalls, received>>
    /\ UNCHANGED <<passVars, buildVars, copyVars>>

\* the API server sends an ERROR event on the watch of the loop and ends it
ServerError(r) ==
    /\ Watching(loops[r], loops[r].trigger)
    /\ LET l  == loops[r]
           ev == TypedEvent("ERROR", l.conn, Len(l.sent) + 1)
       IN  /\ MayDisconnect(l)
           /\ Len(l.chan) < ChanCap
           /\ SetLoop(r, [l EXCEPT !.chan = Append(l.chan, ev),
                                   !.sent = Append(l.sent, ev),
                                   !.closed = TRUE,
                                   !.disconnects = l.disconnects + 1])

\* the controller is about to make the first call of AddCalls; the object
\* to watch exists or not
InitChange ==
    \E exists \in BOOLEAN :
        InitWatchWith(<<AddCalls[1]>>, EmptyInbox, Served(exists))

NextChange ==
    \/ Add
    \/ \E resource \in DOMAIN world : \E type \in EventTypes : Change(resource, type)
    \/ \E r \in DOMAIN loops : WatchOpenListing(r)
    \/ \E r \in DOMAIN loops : ServerError(r)
    \/ \E r \in DOMAIN loops : ServerClose(r)
    \/ \E r \in DOMAIN loops : Receive(r)
    \/ \E r \in DOMAIN loops : EventsReceive(r)
    \/ \E r \in DOMAIN loops : RangeEnd(r)
    \/ \E r \in DOMAIN loops : Sleep(r)

SpecChange == InitChange /\ [][NextChange]_vars

\* the steps of the goroutine of registration r against the API server
LoopStepListing(r) == WatchOpenListing(r) \/ Receive(r) \/ RangeEnd(r) \/ Sleep(r)

\* the controller makes its call, the goroutine is scheduled and the
\* consumer keeps receiving
SpecChangeFair ==
    /\ SpecChange
    /\ WF_vars(Add)
    /\ WF_vars(1 \in DOMAIN loops /\ LoopStepListing(1))
    /\ WF_vars(1 \in DOMAIN loops /\ EventsReceive(1))

----------------------------------------------------------------------------
(* Passes for different requests running side by side: the instance each   *)
(* of them works on (Reconciler.Reconcile), what the gate and the status   *)
(* update do with it (Reconciler.reconcileExists), and the objects they    *)
(* point to.                                                               *)

\* the names of the requests being reconciled
Requests == {"addon-a", "addon-b"}

\* the address of r.prototype
PrototypeAddr == "prototype"

\* the addresses of the objects
Addresses == {PrototypeAddr} \cup {"copy of prototype for " \o id : id \in Requests}

\* r.prototype: an empty object of the controller's kind
Prototype == [name |-> "", isCommon |-> TRUE, status |-> CommonStatus(FALSE, <<>>)]

\* DeepCopyObject that hands out the object itself
DeepCopyShares(addr, id) == addr

\* r.prototype.DeepCopyObject() in the pass for id: the address of a new
\* object
DeepCopyObject(addr, id) == "copy of prototype for " \o id

\* the manifests of the two requests: what the gate is handed
CopyItemLists ==
    {<<>>,
     <<Obj("dep", "apps", "Deployment", Ann(V_1_10_0), <<>>)>>}

\* a pass that has not started
NewPass == [pc |-> "Copy", ref |-> "", gate |-> [called |-> FALSE, valid |-> FALSE, err |-> NilErr]]

\* the pass for id goes on as q
SetPass(id, q) ==
    /\ passes' = [passes EXCEPT ![id] = q]
    /\ UNCHANGED <<passVars, buildVars, watchVars>>

InitCopies ==
    /\ pc = "Copies"
    /\ options = [status |-> TRUE, sink |-> FALSE, ownerFn |-> FALSE,
                  overrideTargetCluster |-> FALSE, prune |-> FALSE,
                  labelMaker |-> FALSE, kustomize |-> FALSE,
                  manifestController |-> TRUE, metrics |-> FALSE]
    /\ engineStr = V_1_4_0
    /\ versionCheck = NewVersionCheck(engineStr)
    /\ store = [status |-> CommonStatus(TRUE, <<>>), updates |-> <<>>]
    /\ instance = [isCommon |-> TRUE, status |-> CommonStatus(TRUE, <<>>)]
    /\ manifest = <<>>
    /\ objects = NilObjects
    /\ gate = [called |-> FALSE, valid |-> FALSE, err |-> NilErr]
    /\ deferred = FALSE
    /\ calls = <<>>
    /\ logged = <<>>
    /\ ret = Ret(NilErr)
    /\ retAtReturn = Ret(NilErr)
    /\ initErr = NilErr
    /\ params = options
    /\ BuildIdle
    /\ WatchIdle
    /\ heap = [a \in Addresses |-> Prototype]
    /\ passes = [id \in Requests |-> NewPass]
    /\ \E healthy \in [Requests -> BOOLEAN] :
           stores = [id \in Requests |->
                        [status |-> CommonStatus(healthy[id], <<>>), updates |-> <<>>]]

\* instance := r.prototype.DeepCopyObject().(DeclarativeObject)
PassCopy(id) ==
    /\ passes[id].pc = "Copy"
    /\ LET ref == DeepCopyObject(PrototypeAddr, id) IN
       /\ heap' = [heap EXCEPT ![ref] = heap[PrototypeAddr]]
       /\ SetPass(id, [passes[id] EXCEPT !.pc = "Get", !.ref = ref])
    /\ UNCHANGED stores

\* r.client.Get(ctx, request.NamespacedName, instance): the store's copy is
\* read into the instance, or the pass returns
PassGet(id) ==
    /\ passes[id].pc = "Get"
    /\ \E getErr \in {NilErr, Err("not found", <<>>)} :
           IF IsErr(getErr)
           THEN /\ SetPass(id, [passes[id] EXCEPT !.pc = "Done"])
                /\ UNCHANGED heap
           ELSE /\ heap' = [heap EXCEPT ![passes[id].ref] =
                               [name |-> id, isCommon |-> TRUE, status |-> stores[id].status]]
                /\ SetPass(id, [passes[id] EXCEPT !.pc = "VersionCheck"])
    /\ UNCHANGED stores

\* r.options.status.VersionCheck(ctx, instance, objects) and the branch
\* taken on its result
PassVersionCheck(id) ==
    /\ passes[id].pc = "VersionCheck"
    /\ \E items \in CopyItemLists :
           LET q      == passes[id]
               res    == VersionCheck(versionCheck, heap[q.ref], items)
               branch == GateBranch(res.valid, res.err)
           IN  /\ heap' = [heap EXCEPT ![q.ref].status = res.status]
               /\ SetPass(id, [q EXCEPT !.gate = [called |-> TRUE, valid |-> res.valid,
                                                  err |-> res.err],
                                        !.pc = IF branch = "StatusUpdate"
                                               THEN "StatusUpdate" ELSE "Done"])
    /\ UNCHANGED stores

\* r.client.Status().Update(ctx, instance)
PassStatusUpdate(id) ==
    /\ passes[id].pc = "StatusUpdate"
    /\ \E err \in {NilErr, Err("status update failed", <<>>)} :
           stores' = [stores EXCEPT ![id] =
                         [status  |-> IF IsErr(err) THEN @.status
                                      ELSE heap[passes[id].ref].status,
                          updates |-> Append(@.updates, heap[passes[id].ref].status)]]
    /\ SetPass(id, [passes[id] EXCEPT !.pc = "Done"])
    /\ UNCHANGED heap

NextCopies ==
    \/ \E id \in Requests : PassCopy(id)
    \/ \E id \in Requests : PassGet(id)
    \/ \E id \in Requests : PassVersionCheck(id)
    \/ \E id \in Requests : PassStatusUpdate(id)

SpecCopies == InitCopies /\ [][NextCopies]_vars

----------------------------------------------------------------------------
(* Properties.                                                             *)

\* the positions of the invocations of op in the log
CallsOf(op) == {i \in DOMAIN calls : calls[i].op = op}

Called(op) == CallsOf(op) # {}

\* the names of a list of objects
RECURSIVE Names(_)
Names(items) == IF items = <<>> THEN <<>> ELSE <<Head(items).name>> \o Names(Tail(items))

\* the requirement annotations of items that are semantic versions
Requirements(items) ==
    { items[i].ann.val : i \in { j \in DOMAIN items :
          items[j].ann.has /\ ~IsErr(SemverMake(items[j].ann.val).err) } }

\* the maximum of the parsable requirements of items exceeds the version
RequirementExceeds(items, version) ==
    \E r \in Requirements(items) : VersionGT(SemverMake(r).v, version)

\* every requirement annotation of items parses
AllParse(items) ==
    \A i \in DOMAIN items : items[i].ann.has => ~IsErr(SemverMake(items[i].ann.val).err)

\* the gate ran and failed on an object set whose maximum requirement
\* exceeds the engine version
GateReportsMismatch ==
    /\ gate.called
    /\ ~gate.valid
    /\ RequirementExceeds(manifest, versionCheck.version)

\* the gate read every annotation and found the maximum requirement greater
\* than the engine version
MismatchFound ==
    /\ gate.called
    /\ AllParse(manifest)
    /\ RequirementExceeds(manifest, versionCheck.version)

\* the status that names the required version r and the engine string e
NamesBothVersions(status, items, e) ==
    /\ status.healthy = FALSE
    /\ Len(status.errors) = 1
    /\ status.errors[1].args[2] = e
    /\ status.errors[1].args[1] \in Requirements(items)
    /\ \A r \in Requirements(items) :
           ~VersionGT(SemverMake(r).v, SemverMake(status.errors[1].args[1]).v)

\* C1: in a pass whose gate reports a version mismatch the apply
\* collaborator is never invoked: the pass only goes on to the status update
\* and ends, whatever the update returns.
C1_NoApplyOnMismatch ==
    GateReportsMismatch => (~Called("Apply") /\ pc \in {"StatusUpdate", "Done"})

C1_Witness ==
    /\ pc = "Done"
    /\ GateReportsMismatch
    /\ \E i \in CallsOf("Status.Update") : IsErr(calls[i].err)

\* C2: once the gate has run, it has failed if and only if the maximum of
\* the parsable requirement annotations is greater than the engine version
\* (unparsable values skipped, no requirement passes).
C2_GateFailsIffRequirementExceeds ==
    pc = "GateDone" => (~gate.valid <=> RequirementExceeds(manifest, versionCheck.version))

\* C3: with an engine version string that does not parse, a gate exists
\* and passes for every object set.
C3_UnparsableEngineFailsOpen ==
    (pc # "NewVersionCheck" /\ IsErr(SemverMake(engineStr).err))
        => (versionCheck.ok /\ (pc = "GateDone" => gate.valid))

\* C4 (as stated): when the pass ends after a version mismatch, the status
\* of the desired-state object is unhealthy with a message naming the
\* required and the engine version, and an update request with that status
\* was submitted.
C4_MismatchMarksUnhealthyAlways ==
    (pc = "Done" /\ MismatchFound) =>
        /\ NamesBothVersions(instance.status, manifest, engineStr)
        /\ store.updates = <<instance.status>>

\* C4 (amended): the same, for a desired-state object that is a
\* CommonObject; for any object the update request is submitted.
C4_MismatchMarksUnhealthy ==
    (pc = "Done" /\ MismatchFound) =>
        /\ store.updates = <<instance.status>>
        /\ instance.isCommon => NamesBothVersions(instance.status, manifest, engineStr)

C4_Witness ==
    /\ pc = "Done"
    /\ MismatchFound
    /\ instance.isCommon
    /\ instance.status.healthy = FALSE
    /\ store.status.healthy = FALSE

\* C5 (as stated): a pass whose gate failed ends without applying and with
\* the result it has when persisting the status succeeds (no error).
C5_GateFailureSameResult ==
    (pc = "Done" /\ gate.called /\ ~gate.valid) =>
        (~Called("Apply") /\ ret = Ret(NilErr))

\* C5 (amended): a pass whose gate failed ends without applying, and it
\* returns the error of the status update: nil when the update succeeded.
C5_GateFailureReturnsUpdateError ==
    (pc = "Done" /\ gate.called /\ ~gate.valid) =>
        /\ ~Called("Apply")
        /\ Cardinality(CallsOf("Status.Update")) = 1
        /\ \A i \in CallsOf("Status.Update") : ret = Ret(calls[i].err)

C5_Witness ==
    /\ pc = "Done"
    /\ gate.called
    /\ ~gate.valid
    /\ IsErr(ret.err)
    /\ store.status.healthy = TRUE

\* C6: when fetching the desired-state object fails, the pass is over with
\* no other collaborator invoked; not-found ends it without error and
\* without requeue, any other error is returned as it is.
C6_FetchFailureEndsPass ==
    (Len(calls) >= 1 /\ IsErr(calls[1].err)) =>
        /\ pc = "Done"
        /\ Len(calls) = 1
        /\ calls[1].op = "Get"
        /\ ret.result.requeue = FALSE
        /\ ret.err = IF calls[1].err.msg = "not found" THEN NilErr ELSE calls[1].err

C6_Witness ==
    /\ pc = "Done"
    /\ calls = <<Call("Get", "", NilObjects, Err("not found", <<>>))>>
    /\ options.status
    /\ options.sink
    /\ ret = Ret(NilErr)

\* C7 (as stated): every finished pass with a status collaborator has
\* invoked Reconciled exactly once.
C7_ReconciledOnceEveryPass ==
    (pc = "Done" /\ options.status) => Cardinality(CallsOf("Reconciled")) = 1

\* the pass got past the build and the version gate
PastGate == gate.called /\ ~IsErr(gate.err)

\* C7 (amended): a finished pass with a status collaborator has invoked
\* Reconciled exactly once, as its last invocation, if it got past the build
\* and the version gate, and not at all otherwise.
C7_ReconciledOncePastGate ==
    (pc = "Done" /\ options.status) =>
        IF PastGate
        THEN CallsOf("Reconciled") = {Len(calls)}
        ELSE CallsOf("Reconciled") = {}

C7_Witness ==
    /\ pc = "Done"
    /\ options.status
    /\ \E i \in CallsOf("Apply") : IsErr(calls[i].err)
    /\ CallsOf("Reconciled") = {Len(calls)}

\* C8: the result the caller gets is the one of the return statement,
\* whether Reconciled succeeded or failed.
C8_ReconciledErrorNotEscalated ==
    pc = "Done" => ret = retAtReturn

C8_Witness ==
    /\ pc = "Done"
    /\ \E i \in CallsOf("Reconciled") : IsErr(calls[i].err)
    /\ ret = Ret(NilErr)
    /\ Called("Apply")

\* the built objects after the list expansion
Expanded == parseListKind(Objects(manifest)).objects.items

\* C9: the owner resolution for an object is called only after the
\* filtering step looked that object up, and apply after both.
C9_FilterBeforeOwner ==
    /\ \A i \in CallsOf("ownerFn") :
           \E j \in CallsOf("GetObjectFromCluster") : j < i /\ calls[j].obj = calls[i].obj
    /\ \A a \in CallsOf("Apply") :
           \A i \in CallsOf("ownerFn") \cup CallsOf("GetObjectFromCluster") : i < a

\* the names the invocations of op were made for, in order
NamesCalled(op) ==
    LET made == SelectSeq(calls, LAMBDA c : c.op = op)
    IN  [i \in DOMAIN made |-> made[i].obj]

\* the live counterpart of the object was read and carries the ignore
\* annotation
LiveIgnore(name) == Cluster(name).fault = "none" /\ Cluster(name).live = "ignore"

\* the lookup of the object fails: it is not found, or the lookup breaks
LookupFails(name) == Cluster(name).fault # "none" \/ Cluster(name).live = "absent"

\* C10: the set handed to apply holds, in their order, exactly the built
\* objects whose live counterpart was not found to carry the ignore
\* annotation; an object whose lookup fails stays in, and no lookup ends
\* the pass.
C10_ApplySetIsUnignored ==
    /\ \A a \in CallsOf("Apply") :
           Names(calls[a].set.items)
               = SelectSeq(Names(Expanded), LAMBDA n : ~LiveIgnore(n))
    /\ (Called("GetObjectFromCluster") /\ pc = "Done")
           => (Called("Apply") \/ Called("overrideTargetCluster"))
    /\ pc \in {"Override", "Apply", "Notify"}
           => Cardinality(CallsOf("GetObjectFromCluster")) = Len(Expanded)

C10_Witness ==
    \E a \in CallsOf("Apply") :
        /\ Len(calls[a].set.items) < Len(Expanded)
        /\ \E i \in DOMAIN calls[a].set.items :
               /\ LookupFails(calls[a].set.items[i].name)
               /\ Cluster(calls[a].set.items[i].name).live = "ignore"

\* the owner-resolution function yields no usable owner for the object: no
\* owner, or one without name, without UID, or of a kind without group or
\* version
NoUsableOwner(name) ==
    LET res == OwnerFn(name) IN
    /\ ~IsErr(res.err)
    /\ \/ res.owner.isNil
       \/ res.owner.name = ""
       \/ res.owner.uid = ""
       \/ res.owner.group = ""
       \/ res.owner.version = ""

\* C11: with an owner-resolution function configured, an object it yields
\* no usable owner for is left without owner reference and the injection goes
\* on: it leaves every object in the set, the objects after the skipped one
\* get their owner reference, and the skipped object is in the set handed to
\* apply whenever the ignore filter (C10) keeps it.
C11_UnusableOwnerStillApplied ==
    options.ownerFn =>
        /\ pc = "Filter" =>
               /\ Names(objects.items) = Names(Expanded)
               /\ NamesCalled("ownerFn") = Names(Expanded)
        /\ \A a \in CallsOf("Apply") :
               LET set == calls[a].set.items IN
               /\ \A i \in DOMAIN Expanded :
                      (NoUsableOwner(Expanded[i].name) /\ ~LiveIgnore(Expanded[i].name))
                          => \E k \in DOMAIN set :
                                 /\ set[k].name = Expanded[i].name
                                 /\ set[k].ownerRefs = <<>>
               /\ \A k \in DOMAIN set :
                      ~NoUsableOwner(set[k].name)
                          => set[k].ownerRefs = <<OwnerRefOf(OwnerFn(set[k].name).owner)>>

C11_Witness ==
    /\ options.ownerFn
    /\ \E a \in CallsOf("Apply") :
           LET set == calls[a].set.items IN
           \E i, k \in DOMAIN set :
               /\ i < k
               /\ NoUsableOwner(set[i].name)
               /\ set[i].ownerRefs = <<>>
               /\ set[k].ownerRefs # <<>>

\* C12: every invocation of apply carries the force flag; with a prune
\* policy it carries also the prune flag and the selector made of exactly
\* the key=value pairs of the label function, joined by commas in the order
\* the range over the label map visited them, and without one it carries
\* nothing else; a reconciler with prune and no label function does not get
\* past its initialization.
C12_ApplyArgs ==
    /\ \A a \in CallsOf("Apply") :
           LET args == calls[a].args IN
           /\ \E i \in DOMAIN args : args[i] = "--force"
           /\ IF options.prune
              THEN \/ args = <<"--force", "--prune", "--selector", "app=addon,tier=ops">>
                   \/ args = <<"--force", "--prune", "--selector", "tier=ops,app=addon">>
              ELSE args = <<"--force">>
    /\ (options.prune /\ ~options.labelMaker) => pc \in {"Init", "InitFailed"}

C12_Witness ==
    /\ options.prune
    /\ options.labelMaker
    /\ \E a \in CallsOf("Apply") :
           /\ Len(calls[a].args) = 4
           /\ calls[a].args[4] = "tier=ops,app=addon"

\* C13: the observer is notified only after an apply of the same pass
\* that succeeded, with the object set that apply got, and at most once in a
\* pass; a finished pass whose observer returned an error returns that
\* error; after a failed apply the observer is not notified and the pass
\* ends with an error. Which observer is configured is the value of
\* r.options.sink when the pass reads it: SetSink may replace it at any time.
C13_NotifyAfterSuccessfulApply ==
    /\ \A n \in CallsOf("Notify") :
           /\ \E a \in CallsOf("Apply") :
                  a < n /\ ~IsErr(calls[a].err) /\ calls[n].set = calls[a].set
           /\ (pc = "Done" /\ IsErr(calls[n].err)) => ret.err = calls[n].err
    /\ \A a \in CallsOf("Apply") :
           IsErr(calls[a].err) =>
               /\ ~Called("Notify")
               /\ pc \in {"Deferred", "Done"}
               /\ IsErr(ret.err)
    /\ Cardinality(CallsOf("Notify")) <= 1

C13_Witness ==
    /\ pc = "Done"
    /\ \E n \in CallsOf("Notify") :
           /\ IsErr(calls[n].err)
           /\ ret.err = calls[n].err
           /\ Len(calls[n].set.items) >= 2

\* the place of a collaborator in the statement order of a pass
StageOf(op) ==
    CASE op = "Get"                    -> 1
      [] op = "Preflight"              -> 2
      [] op = "BuildDeploymentObjects" -> 3
      [] op = "VersionCheck"           -> 4
      [] op = "Status.Update"          -> 5
      [] op = "Event"                  -> 6
      [] op = "ownerFn"                -> 7
      [] op = "GetObjectFromCluster"   -> 8
      [] op = "overrideTargetCluster"  -> 9
      [] op = "Apply"                  -> 10
      [] op = "Notify"                 -> 11
      [] op = "Reconciled"             -> 12

\* the collaborators whose error ends the pass
EndsPass == {"Get", "Preflight", "BuildDeploymentObjects", "Status.Update", "ownerFn",
             "overrideTargetCluster", "Apply", "Notify"}

\* C14: in one pass fetch, build, apply, observer notification and status
\* aggregation are each invoked at most once, no invocation is followed by
\* one of an earlier step, and after a failing step nothing is invoked any
\* more but the status aggregation (after a failed version check: the status
\* update and its event).
C14_NoInternalRetry ==
    /\ \A op \in {"Get", "Preflight", "BuildDeploymentObjects", "VersionCheck",
                  "Status.Update", "overrideTargetCluster", "Apply", "Notify", "Reconciled"} :
           Cardinality(CallsOf(op)) <= 1
    /\ \A i, j \in DOMAIN calls :
           i < j =>
               /\ StageOf(calls[i].op) <= StageOf(calls[j].op)
               /\ (IsErr(calls[i].err) /\ calls[i].op \in EndsPass)
                      => calls[j].op = "Reconciled"
               /\ (IsErr(calls[i].err) /\ calls[i].op = "VersionCheck")
                      => calls[j].op \in {"Status.Update", "Event"}
    /\ \A i \in DOMAIN calls :
           (IsErr(calls[i].err) /\ calls[i].op \in EndsPass) => pc \in {"Deferred", "Done"}

C14_Witness ==
    /\ pc = "Done"
    /\ IsErr(ret.err)
    /\ \E a \in CallsOf("Apply") : IsErr(calls[a].err)
    /\ \A op \in {"Get", "BuildDeploymentObjects", "Apply", "Reconciled"} :
           Cardinality(CallsOf(op)) = 1
    /\ Cardinality(CallsOf("GetObjectFromCluster")) >= 2

\* the objects a list of wrapper elements stands for
RECURSIVE ElementObjects(_)
ElementObjects(elems) ==
    IF elems = <<>> THEN <<>> ELSE <<Head(elems).obj>> \o ElementObjects(Tail(elems))

\* items with every List-kind wrapper replaced, at its place, by its elements
RECURSIVE InPlaceExpansion(_)
InPlaceExpansion(items) ==
    IF items = <<>> THEN <<>>
    ELSE (IF Head(items).kind = "List" THEN ElementObjects(Head(items).elems)
          ELSE <<Head(items)>>) \o InPlaceExpansion(Tail(items))

\* C15: after the list expansion the working set is the built set with each
\* List-kind wrapper replaced in place by its elements, in their order and
\* with the other objects in theirs, and no object of kind List is in a set
\* handed to apply.
C15_ListsExpandedInPlace ==
    /\ pc = "InjectOwnerRef" => objects.items = InPlaceExpansion(manifest)
    /\ \A a \in CallsOf("Apply") :
           \A i \in DOMAIN calls[a].set.items : calls[a].set.items[i].kind # "List"

\* the kinds without dependencies, and the kinds of workloads that refer to
\* objects of those kinds
DependencyFree(o) == o.kind \in {"Namespace", "ServiceAccount"}

Workload(o) == o.kind = "Deployment"

\* C16: in every sequence of objects handed to apply, each namespace and
\* service account precedes each workload, also when they come out of a
\* List wrapper.
C16_ApplyOrderIsDependencySafe ==
    \A a \in CallsOf("Apply") :
        LET set == calls[a].set.items IN
        \A i, k \in DOMAIN set :
            (DependencyFree(set[i]) /\ Workload(set[k])) => i < k

\* C17: two builds for the same desired-state object that both succeed
\* return the same object set: the same items in the same order, the same
\* blobs and the same path, whatever the order in which the resolved files
\* were visited.
C17_BuildIsDeterministic ==
    \A i, j \in DOMAIN builds :
        (~IsErr(builds[i].err) /\ ~IsErr(builds[j].err))
            => builds[i].objects = builds[j].objects

\* C18: a build in which a step failed hands out no object set, and the
\* pass ends there with an error: nothing is invoked after the build, neither
\* apply nor the observer.
C18_FailedBuildYieldsNoSet ==
    \A b \in CallsOf("BuildDeploymentObjects") :
        IsErr(calls[b].err) =>
            /\ calls[b].set = NilObjects
            /\ objects = NilObjects
            /\ b = Len(calls)
            /\ ~Called("Apply")
            /\ ~Called("Notify")
            /\ pc = "Done"
            /\ IsErr(ret.err)

C18_Witness ==
    /\ pc = "Done"
    /\ Len(manifest) = 2
    /\ options.sink
    /\ \E b \in CallsOf("BuildDeploymentObjects") : calls[b].err.msg = "error running kustomize: %v"
    /\ objects = NilObjects

\* what holds of the loop of registration r at every moment: the caller got
\* no error; the last call of client.Watch was for the resource and with
\* the filter of the registration; before each call after the first the loop
\* slept WatchDelay once more; the events of the current connection went to
\* the callback of the registration
ReopensTheSameWatch(r) ==
    LET l   == loops[r]
        reg == registrations[r]
    IN  /\ reg.started
        /\ reg.err = NilErr
        /\ Len(loops) = Len(registrations)
        /\ l.attempts >= 1 =>
               l.lastCall = [resource |-> reg.call.trigger,
                             options  |-> reg.call.options,
                             made     |-> TRUE]
        /\ l.slept = WatchDelay * (IF l.pc = "Watch" THEN l.attempts ELSE l.attempts - 1)
        /\ l.attempts >= l.disconnects
        /\ \A i \in DOMAIN l.delivered :
               /\ l.delivered[i].callback = reg.call.callback
               /\ l.delivered[i].ev.conn = l.conn

\* C19: for every registration, at every moment ReopensTheSameWatch holds,
\* and after each disconnect (a refused or a closed watch) the loop calls
\* client.Watch again: after the n-th disconnect it gets to its (n+1)-th call.
C19_WatchReopensAfterDelay ==
    /\ [](\A r \in DOMAIN loops : ReopensTheSameWatch(r))
    /\ \A r \in DOMAIN RegistrationCalls : \A n \in 1..MaxDisconnects :
           (r \in DOMAIN loops /\ loops[r].disconnects >= n)
               ~> (r \in DOMAIN loops /\ loops[r].attempts >= n + 1)

C19_Witness ==
    \E r \in DOMAIN loops :
        /\ Len(registrations) = r
        /\ loops[r].disconnects = 2
        /\ loops[r].attempts = 3
        /\ loops[r].conn = 2
        /\ loops[r].slept = 2 * WatchDelay
        /\ loops[r].options = "app=addon"
        /\ Len(loops[r].delivered) = 2

\* the events the callback of a loop was called with, in order
DeliveredEvents(l) == [i \in DOMAIN l.delivered |-> l.delivered[i].ev]

\* C20: on every connection the events the server sent are, in their
\* order, the events the callback was called with followed by the events
\* still in the result channel, so each is passed once and in stream order
\* and none is left when the loop has left the connection; the callback was
\* called once more than it returned exactly while the loop is in it, so no
\* event is taken before the callback for the one before it has returned.
C20_EventsDeliveredInOrder ==
    \A r \in DOMAIN loops :
        LET l == loops[r] IN
        /\ l.sent = DeliveredEvents(l) \o l.chan
        /\ Len(l.delivered) = l.returned + (IF l.pc = "Callback" THEN 1 ELSE 0)
        /\ l.pc = "Callback" => l.ev = l.delivered[Len(l.delivered)].ev
        /\ l.pc \in {"Sleep", "Watch"} => l.chan = <<>>
        /\ \A i \in DOMAIN l.delivered : l.delivered[i].callback = l.callback

\* on a second connection the callback was called with the first event of
\* the stream and has not returned, while the next two events wait in the
\* result channel
C20_Witness ==
    \E r \in DOMAIN loops :
        /\ loops[r].pc = "Callback"
        /\ Len(loops[r].delivered) = 1
        /\ loops[r].returned = 0
        /\ Len(loops[r].chan) = 2
        /\ loops[r].conn = 2

\* the triggers the consumer received are those of the targets of the
\* registrations: each is filed under the identity it carries, that identity
\* is the target of a registration made with Add, and it is not the
\* identity of the object the event is about
TriggersNameTargets ==
    \A id \in DOMAIN received : \A i \in DOMAIN received[id] :
        LET msg == received[id][i] IN
        /\ Identity(msg.Object) = id
        /\ \E k \in DOMAIN registrations :
               registrations[k].started /\ registrations[k].call.target = id
        /\ Identity(msg.Object) # msg.Object.Object.meta

\* the callback of loop r returns in this step
CallbackReturns(r) ==
    /\ r \in DOMAIN loops
    /\ loops[r].pc = "Callback"
    /\ loops'[r].pc # "Callback"

\* in this step the consumer receives one trigger more, for the target of
\* registration r and about the event the callback of loop r was called with
OneTriggerFor(r) ==
    LET l      == loops[r]
        target == registrations[r].call.target
    IN  received' = [received EXCEPT ![target] =
                        Append(@, [Object |-> [Object     |-> EventObject(l.trigger, l.ev),
                                               ObjectMeta |-> target]])]

\* C21: every trigger received on the outbound channel carries the identity
\* (name, namespace) of the target of a registration and not the identity of
\* the object of the event; and each call of the callback of a registration,
\* whatever the type of the event (ADDED, MODIFIED, DELETED, ERROR), puts
\* exactly one trigger on the channel, for the target of that registration,
\* while nothing else puts a trigger on it.
C21_EventsBecomeTargetTriggers ==
    /\ []TriggersNameTargets
    /\ [][/\ \A r \in DOMAIN loops : CallbackReturns(r) => OneTriggerFor(r)
          /\ (received' # received) => \E r \in DOMAIN loops : CallbackReturns(r)]_vars

C21_Witness ==
    LET inbox == received[AddCalls[1].target] IN
    /\ Len(inbox) >= 3
    /\ \E i \in DOMAIN inbox : inbox[i].Object.Object.resource = "Status"
    /\ \E i \in DOMAIN inbox : inbox[i].Object.Object.resource = "pods"
    /\ world["pods"].changes = MaxChanges
    /\ ~world["pods"].exists
    /\ \A id \in DOMAIN received : id # AddCalls[1].target => received[id] = <<>>

\* every registration that succeeded has its loop, and only those have one
OneLoopPerRegistration ==
    /\ Len(loops) = Cardinality({k \in DOMAIN registrations : registrations[k].started})
    /\ \A r \in DOMAIN loops :
           /\ registrations[r].started
           /\ loops[r].trigger = registrations[r].call.trigger
           /\ loops[r].callback = registrations[r].call.callback

\* the watches a loop opened and has not stopped: one while it ranges over
\* the result channel, none when it sleeps or is about to call client.Watch
OpenConnections(l) == l.conn - l.stops

AtMostOneConnection ==
    \A r \in DOMAIN loops :
        LET l == loops[r] IN
        /\ l.pc \in {"Range", "Callback"} => OpenConnections(l) = 1
        /\ l.pc \in {"Watch", "Sleep"} => OpenConnections(l) = 0

\* a loop with an event in its result channel can take it, whatever the
\* other loops are doing
DeliveryNeverWaitsForAnotherLoop ==
    \A r \in DOMAIN loops :
        (loops[r].pc = "Range" /\ loops[r].chan # <<>>) => ENABLED Receive(r)

\* C22: every registration that succeeded has exactly one loop; a loop has
\* at most one watch open, the one before being stopped when the next is
\* opened; a step of one loop changes nothing of another loop, and a loop
\* that has an event to deliver can deliver it in any state of the other
\* loops, disconnected or sleeping included.
C22_OneLoopOneConnectionIndependent ==
    /\ [](OneLoopPerRegistration /\ AtMostOneConnection /\ DeliveryNeverWaitsForAnotherLoop)
    /\ [][\A r \in DOMAIN loops :
              loops'[r] # loops[r] =>
                  \A q \in DOMAIN loops \ {r} : loops'[q] = loops[q]]_vars

C22_Witness ==
    /\ Len(loops) = 2
    /\ loops[1].pc = "Sleep"
    /\ loops[1].conn = 2
    /\ loops[1].stops = 2
    /\ loops[1].disconnects = 2
    /\ loops[2].pc = "Callback"
    /\ loops[2].conn = 1
    /\ Len(loops[2].delivered) = 2

\* the events of the watch stream of loop r that its callback has sent on
\* dw.events and the consumer has taken: all of the connections before the
\* present one, and of the present one those whose callback returned
ForwardedAndTaken(r) ==
    LET l == loops[r]
        before == [i \in 1..((l.conn - 1) * MaxEvents) |->
                      Event(((i - 1) \div MaxEvents) + 1, ((i - 1) % MaxEvents) + 1)]
    IN  IF l.conn = 0 THEN <<>>
        ELSE before \o [i \in 1..l.returned |-> l.delivered[i].ev]

\* the triggers of a list, as the objects of their events
ObjectsOf(triggers) == [i \in DOMAIN triggers |-> triggers[i].Object.Object]

\* what the consumer holds for the target of registration r is, in order and
\* once each, what the loop of r forwarded; the targets of the registrations
\* differ, so nothing of another registration is among it
InboxMatchesStream(r) ==
    ObjectsOf(received[registrations[r].call.target])
        = [i \in DOMAIN ForwardedAndTaken(r) |->
              EventObject(loops[r].trigger, ForwardedAndTaken(r)[i])]

\* C23: with two registrations sending on dw.events, at every moment the
\* triggers the consumer holds for the target of a registration are exactly
\* the events that registration's loop forwarded, once each and in the
\* order of its watch stream, and no trigger is held under another
\* identity; and with a consumer that keeps receiving, every call of a
\* callback returns, that is, every forwarded event is taken.
C23_NoTriggerLostDuplicatedOrMisfiled ==
    /\ [](\A r \in DOMAIN loops : InboxMatchesStream(r))
    /\ [](\A id \in DOMAIN received :
              received[id] # <<>> =>
                  \E r \in DOMAIN loops : registrations[r].call.target = id)
    /\ \A r \in DOMAIN AddCalls :
           (r \in DOMAIN loops /\ loops[r].pc = "Callback")
               ~> (r \in DOMAIN loops /\ loops[r].pc # "Callback")

C23_Witness ==
    /\ Len(loops) = 2
    /\ loops[1].pc = "Callback"
    /\ loops[2].pc = "Callback"
    /\ Len(received[AddCalls[1].target]) = 3
    /\ Len(received[AddCalls[2].target]) = 1
    /\ loops[1].conn = 2

\* the goroutine of a loop is at one of the statements of its endless for
\* loop, and it slept WatchDelay after each watchUntilClosed that returned
LoopGoesOn(l) ==
    /\ l.pc \in {"Watch", "Range", "Callback", "Sleep"}
    /\ l.slept = WatchDelay * (IF l.pc = "Watch" THEN l.attempts ELSE l.attempts - 1)

\* C24: the loop of a registration never ends, whether the context passed
\* to AddForGVR is done or not, and it sleeps WatchDelay between two calls
\* of client.Watch; and once the context is done the loop still gets from
\* each call of client.Watch to the next one.
C24_LoopSurvivesCancellation ==
    /\ [](\A r \in DOMAIN loops : LoopGoesOn(loops[r]))
    /\ \A n \in 0..(MaxAttempts - 1) :
           (1 \in DOMAIN loops /\ loops[1].cancelled /\ loops[1].attempts = n)
               ~> (1 \in DOMAIN loops /\ loops[1].cancelled /\ loops[1].attempts > n)

C24_Witness ==
    /\ 1 \in DOMAIN loops
    /\ loops[1].cancelled
    /\ loops[1].conn = 1
    /\ loops[1].stops = 1
    /\ loops[1].disconnects = 0
    /\ Len(loops[1].delivered) = 1
    /\ loops[1].attempts = 4
    /\ loops[1].slept = 3 * WatchDelay
    /\ loops[1].pc = "Sleep"

\* the instance of the pass for id
InstanceOf(id) == heap[passes[id].ref]

\* the passes that have made their instance
Copied == {id \in Requests : passes[id].ref # ""}

\* the instance of a pass is an object of its own: not the prototype and
\* not the instance of another pass
OwnCopies ==
    \A id \in Copied :
        /\ passes[id].ref # PrototypeAddr
        /\ \A other \in Copied \ {id} : passes[other].ref # passes[id].ref

\* the instance of a pass shows the object of its own request only, and an
\* unhealthy status with errors only when the gate of this pass reported a
\* mismatch
NoForeignStatus ==
    \A id \in Copied :
        /\ InstanceOf(id).name \in {"", id}
        /\ InstanceOf(id).status.errors # <<>> =>
               (passes[id].gate.called /\ ~passes[id].gate.valid)

\* C25: the prototype is never changed; every pass works on an object of
\* its own, in which nothing of the pass for another request shows, the
\* status set by that pass's gate included; and a store copy changes only
\* in the status update of the pass for its request, to the status of that
\* pass's instance.
C25_PassesWorkOnOwnCopies ==
    /\ [](heap[PrototypeAddr] = Prototype /\ OwnCopies /\ NoForeignStatus)
    /\ [][\A id \in Requests :
              stores'[id] # stores[id] =>
                  /\ passes[id].pc = "StatusUpdate"
                  /\ stores'[id].updates = Append(stores[id].updates, InstanceOf(id).status)
                  /\ stores'[id].status \in {stores[id].status, InstanceOf(id).status}]_vars

C25_Witness ==
    /\ passes["addon-a"].pc = "Done"
    /\ ~passes["addon-a"].gate.valid
    /\ InstanceOf("addon-a").status.errors # <<>>
    /\ stores["addon-a"].status = InstanceOf("addon-a").status
    /\ passes["addon-b"].pc = "VersionCheck"
    /\ InstanceOf("addon-b").status = CommonStatus(TRUE, <<>>)
    /\ stores["addon-b"].status = CommonStatus(TRUE, <<>>)

\* the owner reference of the object cannot be written: a usable owner is
\* resolved and SetNestedField fails
OwnerWriteFails(name) ==
    LET res == OwnerFn(name) IN
    /\ ~IsErr(res.err)
    /\ ~SkipsOwner(res.owner)
    /\ SetNestedFieldFails([name |-> name])

\* the owner injection of the pass failed: the owner-resolution function
\* returned an error, or an owner reference could not be written
InjectionFailed ==
    \E i \in CallsOf("ownerFn") : IsErr(calls[i].err) \/ OwnerWriteFails(calls[i].obj)

\* no override of the target cluster failed in the pass
OverrideWentWell == \A i \in CallsOf("overrideTargetCluster") : ~IsErr(calls[i].err)

\* C26 (as stated): a pass that got to the owner injection gets to apply,
\* whatever the owner-resolution function returned and whatever happened to
\* the writing of the owner reference.
C26_OwnerNeverBlocksApply ==
    (Called("ownerFn") /\ pc \in {"Deferred", "Done"} /\ OverrideWentWell)
        => Called("Apply")

\* C26 (amended): when the owner-resolution function returns an error for an
\* object, or an owner reference cannot be written, the pass ends there: it
\* returns an error, resolves no further owner and never calls apply; when
\* neither happens, the pass gets to apply with exactly the objects the
\* ignore filter keeps.
C26_OwnerErrorEndsPassBeforeApply ==
    options.ownerFn =>
        /\ InjectionFailed =>
               /\ ~Called("Apply")
               /\ pc \in {"Deferred", "Done"}
               /\ IsErr(retAtReturn.err)
               /\ \A i \in CallsOf("ownerFn") :
                      (IsErr(calls[i].err) \/ OwnerWriteFails(calls[i].obj))
                          => /\ \A j \in CallsOf("ownerFn") : j <= i
                             /\ IsErr(calls[i].err) => retAtReturn.err = calls[i].err
        /\ (Called("ownerFn") /\ ~InjectionFailed /\ OverrideWentWell
              /\ pc \in {"Deferred", "Done"}) =>
               \E a \in CallsOf("Apply") :
                   Names(calls[a].set.items)
                       = Names(SelectSeq(Expanded, LAMBDA o : ~LiveIgnore(o.name)))

C26_Witness ==
    /\ options.ownerFn
    /\ pc = "Done"
    /\ \E i, j \in CallsOf("ownerFn") :
           /\ i < j
           /\ ~IsErr(calls[i].err)
           /\ IsErr(calls[j].err)
           /\ ret.err = calls[j].err
    /\ ~Called("Apply")

\* the builds that ran the kustomize stage
Kustomized == {b \in DOMAIN builds : "stage" \in DOMAIN builds[b]}

\* everything the files of fs hold
Held(fs) == UNION { {fs[path][i] : i \in DOMAIN fs[path]} : path \in DOMAIN fs }

\* the kustomize stage of build b was run on a file system that holds every
\* object and every blob of every resolved document
StageReceivesAll(b) ==
    \A path \in DOMAIN manifestFiles :
        LET writes == WritesOf(manifestFiles[path]) IN
        \A i \in DOMAIN writes : writes[i] \in Held(builds[b].stage.input)

\* the items of a list, as a set
Range(seq) == {seq[i] : i \in DOMAIN seq}

\* what build b returns holds nothing but what the kustomize stage gave
OutputReplacesSet(b) ==
    /\ Range(builds[b].objects.items) \subseteq Range(builds[b].stage.output.items)
    /\ Range(builds[b].objects.blobs) \subseteq Range(builds[b].stage.output.blobs)

\* C27: in every build with the kustomize option the stage is run on all
\* the objects and blobs of all the documents, and the returned set holds
\* no object and no blob that the output of the stage does not hold.
C27_KustomizeReplacesWholeSet ==
    \A b \in Kustomized : StageReceivesAll(b) /\ OutputReplacesSet(b)

\* the part of C27 that holds: the returned items are the sorted items of
\* the output of the stage
KustomizeReplacesItems ==
    \A b \in Kustomized :
        builds[b].objects.items = SortItems(builds[b].stage.output.items)

\* C28: whenever the watched object was changed (created, modified or
\* deleted) while a registration for its resource exists, the watch being
\* open, closed or in its delay, a trigger for the target of the
\* registration is emitted afterwards.
C28_EveryChangeTriggers ==
    \A resource \in {"pods"} :
        (resource \in DOMAIN world /\ world[resource].untriggered)
            ~> (resource \in DOMAIN world /\ ~world[resource].untriggered)

\* the part of C28 that holds: a change that leaves the object in existence
\* is followed by a trigger, or by the deletion of the object
ChangeOfLiveObjectTriggers ==
    \A resource \in {"pods"} :
        (resource \in DOMAIN world /\ world[resource].untriggered /\ world[resource].exists)
            ~> (resource \in DOMAIN world
                  /\ (~world[resource].untriggered \/ ~world[resource].exists))

\* the gate runs in this step
GateRuns == ~gate.called /\ gate'.called

\* C29: the step in which the gate runs changes the desired-state object
\* only when the gate reports a version mismatch, and then only its status;
\* when the gate passes, the object is after the step what it was before
\* and the store is untouched; and a pass whose gate passed submits no
\* status update.
C29_PassingGateLeavesObjectAlone ==
    /\ []((gate.called /\ gate.valid) =>
              (~Called("Status.Update") /\ store.updates = <<>>
                 /\ instance.status = store.status))
    /\ [][GateRuns =>
              /\ instance'.isCommon = instance.isCommon
              /\ instance' # instance =>
                     (~gate'.valid /\ RequirementExceeds(manifest, versionCheck.version))
              /\ gate'.valid => (instance' = instance /\ store' = store)]_vars

C29_Witness ==
    /\ gate.called
    /\ gate.valid
    /\ Requirements(manifest) # {}
    /\ Called("Apply")
    /\ pc = "Done"
    /\ instance.status = CommonStatus(TRUE, <<>>)
    /\ store.updates = <<>>

====
